---- MODULE Spec2Model ----
(***************************************************************************)
(* Scan.execute (theano/scan_module/scan_op.py): the step-execution engine *)
(* of the Scan op, modelled as a state machine over one call of execute.   *)
(*                                                                         *)
(* Array entries are symbolic values <<kind, channel, index>>:             *)
(*   <<"seq", s, j>>    entry j of plain sequence s as the caller passed it *)
(*   <<"init", c, j>>   entry j of the initial-state argument of output c  *)
(*   <<"step", c, t>>   what the inner function produced for output c at   *)
(*                      iteration t                                        *)
(*   <<"stale", c, j>>  prior content of a caller-provided output buffer   *)
(*   <<"shared", s, k>> shared value s after k applications of the step    *)
(*   <<"zero", 0, 0>>   numeric zero                                       *)
(* Indices in the source are 0-based; TLA+ sequences are 1-based, so the   *)
(* source's a[k] is a[k + 1] here.                                         *)
(***************************************************************************)
EXTENDS Integers, Sequences, FiniteSets, TLC

VARIABLES
    cfg,             \* the op's info: counts, tap_array, mit_mot_out_slices, flags
    args,            \* the args list handed to execute (initial states are written through when inplace)
    outs,            \* the outs list: one storage cell per output
    pc,              \* position in execute
    n_steps,         \* local n_steps (made non-negative)
    seqs,            \* local seqs (flipped when args[0] < 0)
    store_steps,     \* length of each tracked output buffer
    pos,             \* current ring position of each tracked output
    i,               \* iteration counter
    cond,            \* continuation flag
    input_storage,   \* self.fn.input_storage, flat
    output_storage,  \* self.fn.output_storage, flat
    raised,          \* the exception that left execute, or NoError
    calls,           \* history: number of invocations of fn
    seq_trace,       \* history: the sequence slots handed to fn, per invocation
    cond_trace,      \* history: the termination scalars fn returned, per invocation
    g_outs,          \* grad: the gradients of the outputs, None where there is none
    inner_gfn_outs,  \* grad: per differentiable inner input, the terms of its gradient
    scan_seqs,       \* grad: the sequences of the backward scan
    scan_mit_mot,    \* grad: the initial states of the backward MIT-MOT outputs
    scan_mit_mot_outs, \* grad: the inner outputs of the backward MIT-MOT outputs
    mit_mot_taps,    \* grad: tap_array of the backward op
    mit_mot_out_slices, \* grad: mit_mot_out_slices of the backward op
    info,            \* grad: the info of the backward op
    scan_inputs,     \* grad: the arguments the backward op is applied to
    gradients        \* grad: the list grad returns

\* the locals of grad
grad_locals == <<g_outs, inner_gfn_outs, scan_seqs, scan_mit_mot, scan_mit_mot_outs,
                 mit_mot_taps, mit_mot_out_slices, info, scan_inputs, gradients>>

\* the locals of execute
execute_locals == <<outs, n_steps, seqs, store_steps, pos, i, cond, input_storage,
                    output_storage, raised, calls, seq_trace, cond_trace>>

vars == <<cfg, args, outs, pc, n_steps, seqs, store_steps, pos, i, cond,
          input_storage, output_storage, raised, calls, seq_trace, cond_trace,
          g_outs, inner_gfn_outs, scan_seqs, scan_mit_mot, scan_mit_mot_outs,
          mit_mot_taps, mit_mot_out_slices, info, scan_inputs, gradients>>

----------------------------------------------------------------------------
(* Bounds of the model *)

MaxSteps == 3

MaxInnerNodes == 2

LongSteps == 100

CondLimit == 3

----------------------------------------------------------------------------
(* Values and arrays *)

Zero == <<"zero", 0, 0>>

NoValue == <<"none", 0, 0>>

NoneBuf == [alloc |-> FALSE, shape |-> 0, data |-> <<>>]

Buf(shape, data) == [alloc |-> TRUE, shape |-> shape, data |-> data]

NoError == [exc |-> "none", tags |-> {}]

Abs(x) == IF x < 0 THEN -x ELSE x

Min2(a, b) == IF a < b THEN a ELSE b

Max2(a, b) == IF a > b THEN a ELSE b

RECURSIVE SeqMin(_)
SeqMin(s) == IF Len(s) = 1 THEN s[1] ELSE Min2(s[1], SeqMin(Tail(s)))

RECURSIVE SeqMax(_)
SeqMax(s) == IF Len(s) = 1 THEN s[1] ELSE Max2(s[1], SeqMax(Tail(s)))

RECURSIVE SumLen(_)
SumLen(ss) == IF ss = <<>> THEN 0 ELSE Len(Head(ss)) + SumLen(Tail(ss))

RECURSIVE Flatten(_)
Flatten(ss) == IF ss = <<>> THEN <<>> ELSE Head(ss) \o Flatten(Tail(ss))

\* a[::-1]
Reverse(a) == [k \in 1..Len(a) |-> a[Len(a) + 1 - k]]

\* a[lo:hi] for 0 <= lo, with hi clipped to the length as Python does
Slice(a, lo, hi) ==
    LET h == Min2(hi, Len(a))
    IN  IF lo >= h THEN <<>> ELSE [k \in 1..(h - lo) |-> a[lo + k]]

\* a[lo:lo+len(vals)] = vals
Assign(a, lo, vals) ==
    [k \in 1..Len(a) |-> IF k > lo /\ k <= lo + Len(vals) THEN vals[k - lo] ELSE a[k]]

\* variant: the fill starts one entry late
Fill_Late(a, lo, value) == [k \in 1..Len(a) |-> IF k > lo + 1 THEN value ELSE a[k]]

\* a[lo:] = value
Fill(a, lo, value) == [k \in 1..Len(a) |-> IF k > lo THEN value ELSE a[k]]

\* variant: nothing is cut
DropLast_Nothing(a, cut) == a

\* a[:-cut] for cut > 0
DropLast(a, cut) == Slice(a, 0, Max2(Len(a) - cut, 0))

Take(s, n) == SubSeq(s, 1, n)

\* numpy.zeros(shape)
Zeros(n) == [k \in 1..n |-> Zero]

----------------------------------------------------------------------------
(* The op's precomputed values (Scan.__init__) *)

n_outs == cfg.n_mit_mot + cfg.n_mit_sot + cfg.n_sit_sot

MinTapsOf(c) ==
    [k \in 1..(Len(c.tap_array) + c.n_nit_sot) |->
        IF k <= Len(c.tap_array) THEN SeqMin(c.tap_array[k]) ELSE 0]

mintaps == MinTapsOf(cfg)

seqs_arg_offset == 1 + cfg.n_seqs

shared_arg_offset == seqs_arg_offset + cfg.n_mit_mot + cfg.n_mit_sot + cfg.n_sit_sot

nit_sot_arg_offset == shared_arg_offset + cfg.n_shared_outs

\* the number of tracked (ring) outputs
n_tracked == n_outs + cfg.n_nit_sot

\* 0-based access to the flat lists
Arg(k) == args[k + 1]


\* numpy's a[k] with k possibly negative: the 0-based slot, or -1 when out of range
PyIndex(k, len) == IF k >= 0 /\ k < len THEN k ELSE IF k < 0 /\ k >= -len THEN k + len ELSE -1

----------------------------------------------------------------------------
(* The configurations and arguments the model is run on *)

\* one MIT-SOT (taps -2, -1), one SIT-SOT, one NIT-SOT, one shared output
LayoutA ==
    [n_seqs |-> 1, n_mit_mot |-> 0, n_mit_sot |-> 1, n_sit_sot |-> 1,
     n_nit_sot |-> 1, n_shared_outs |-> 1, n_mit_mot_outs |-> 0, n_other |-> 1,
     tap_array |-> << <<-2, -1>>, <<-1>> >>, mit_mot_out_slices |-> << >>]

\* one MIT-MOT (taps 0, 1 and out slice 1, as grad builds it for a SIT-SOT),
\* one SIT-SOT, one NIT-SOT, one shared output, two plain sequences
LayoutB ==
    [n_seqs |-> 2, n_mit_mot |-> 1, n_mit_sot |-> 0, n_sit_sot |-> 1,
     n_nit_sot |-> 1, n_shared_outs |-> 1, n_mit_mot_outs |-> 1, n_other |-> 1,
     tap_array |-> << <<0, 1>>, <<-1>> >>, mit_mot_out_slices |-> << <<1>> >>]

Layouts == {LayoutA, LayoutB}

\* SIT-SOT outputs only: two of them, one plain sequence
LayoutC ==
    [n_seqs |-> 1, n_mit_mot |-> 0, n_mit_sot |-> 0, n_sit_sot |-> 2,
     n_nit_sot |-> 0, n_shared_outs |-> 0, n_mit_mot_outs |-> 0, n_other |-> 1,
     tap_array |-> << <<-1>>, <<-1>> >>, mit_mot_out_slices |-> << >>]

\* how the caller provides output storage: the op computes inplace, or the cells
\* of outs are empty, or hold a buffer of another per-step shape, or a buffer one
\* entry shorter than, as long as, or one entry longer than store_steps
StorageModes == {"inplace", "none", "badshape", "short", "exact", "long"}

\* the largest offset a channel reads or writes, relative to the position
MaxOffset(lay, c) ==
    IF c <= lay.n_mit_mot
    THEN IF lay.mit_mot_out_slices[c] = << >> THEN SeqMax(lay.tap_array[c])
         ELSE Max2(SeqMax(lay.tap_array[c]), SeqMax(lay.mit_mot_out_slices[c]))
    ELSE 0

\* length of the initial-state argument of tap output c (1-based): the history
\* the taps need plus rooms[c] further entries
StoreFor(lay, c, rooms) == MaxOffset(lay, c) - SeqMin(lay.tap_array[c]) + rooms[c]

\* the NIT-SOT length argument of tracked output c (1-based)
NitStoreFor(c, rooms) == rooms[c] + 1

\* the further entries of each tracked output: room for all, except that a
\* MIT-MOT buffer has at least mm_room
Rooms(lay, room, mm_room) ==
    [c \in 1..(Len(lay.tap_array) + lay.n_nit_sot) |->
        IF c <= lay.n_mit_mot THEN Max2(room, mm_room) ELSE room]

SeqData(s, len, flipped) ==
    LET asc == [k \in 1..len |-> <<"seq", s, k - 1>>]
    IN  IF flipped THEN Reverse(asc) ELSE asc

InitState(c, len) == [k \in 1..len |-> <<"init", c, k - 1>>]

Stale(c, len) == [k \in 1..len |-> <<"stale", c, k - 1>>]

SharedInit(s) == <<"shared", s, 0>>

OtherArg(k) == <<"other", k, 0>>

\* the args list: n_steps, sequences, initial states, shared, NIT-SOT lengths, others
MakeArgs(lay, ns, lens, flipped, rooms) ==
    <<ns>>
    \o [s \in 1..lay.n_seqs |-> SeqData(s - 1, lens[s], flipped)]
    \o [c \in 1..Len(lay.tap_array) |-> InitState(c - 1, StoreFor(lay, c, rooms))]
    \o [s \in 1..lay.n_shared_outs |-> SharedInit(s - 1)]
    \o [c \in 1..lay.n_nit_sot |-> NitStoreFor(Len(lay.tap_array) + c, rooms)]
    \o [k \in 1..lay.n_other |-> OtherArg(k - 1)]

\* the buffer the caller left in the cell of tracked output c (0-based) whose
\* store_steps is len
CallerBuf(mode, c, len) ==
    CASE mode \in {"inplace", "none"} -> NoneBuf
      [] mode = "badshape" -> Buf(1, Stale(c, len))
      [] mode = "short" -> Buf(0, Stale(c, len - 1))
      [] mode = "exact" -> Buf(0, Stale(c, len))
      [] mode = "long" -> Buf(0, Stale(c, len + 1))

CallerShared(mode, s) ==
    IF mode \in {"inplace", "none"} THEN NoValue ELSE <<"stale", s, 0>>

\* the outs list as the caller passes it
MakeOuts(lay, mode, rooms) ==
    [c \in 1..Len(lay.tap_array) |-> CallerBuf(mode, c - 1, StoreFor(lay, c, rooms))]
    \o [c \in 1..lay.n_nit_sot |->
          CallerBuf(mode, Len(lay.tap_array) + c - 1,
                    NitStoreFor(Len(lay.tap_array) + c, rooms))]
    \o [s \in 1..lay.n_shared_outs |-> CallerShared(mode, s - 1)]

NumInputSlots(lay) ==
    lay.n_seqs + SumLen(lay.tap_array) + lay.n_shared_outs + lay.n_other

NumOutputSlots(lay, while) ==
    lay.n_mit_mot_outs + lay.n_mit_sot + lay.n_sit_sot + lay.n_nit_sot
    + lay.n_shared_outs + (IF while THEN 1 ELSE 0)

InitWith(lay, ns, while, until, mode, lens, flipped, rooms) ==
    /\ cfg = lay @@ [as_while |-> while, inplace |-> (mode = "inplace"),
                      until |-> until, storage |-> mode, rooms |-> rooms]
    /\ args = MakeArgs(lay, ns, lens, flipped, rooms)
    /\ outs = MakeOuts(lay, mode, rooms)
    /\ pc = "start"
    /\ n_steps = 0
    /\ seqs = << >>
    /\ store_steps = << >>
    /\ pos = << >>
    /\ i = 0
    /\ cond = TRUE
    /\ input_storage = [k \in 1..NumInputSlots(lay) |-> NoValue]
    /\ output_storage = [k \in 1..NumOutputSlots(lay, while) |-> NoValue]
    /\ raised = NoError
    /\ calls = 0
    /\ seq_trace = << >>
    /\ cond_trace = << >>
    /\ g_outs = << >>
    /\ inner_gfn_outs = << >>
    /\ scan_seqs = << >>
    /\ scan_mit_mot = << >>
    /\ scan_mit_mot_outs = << >>
    /\ mit_mot_taps = << >>
    /\ mit_mot_out_slices = << >>
    /\ info = << >>
    /\ scan_inputs = << >>
    /\ gradients = << >>

\* sequence lengths around the number of steps asked for
LensAround(lay, n) ==
    [1..lay.n_seqs -> {l \in (n - 1)..(n + 1) : l >= 0}]

\* the MIT-MOT buffers are either as tight as the others or hold every step
MitMotRooms(lay, most) == IF lay.n_mit_mot = 0 THEN {0} ELSE {0, most}

Init ==
    \E lay \in Layouts, ns \in (-MaxSteps)..MaxSteps, while \in BOOLEAN,
       mode \in StorageModes, flipped \in BOOLEAN, room \in 0..(MaxSteps + 1) :
        \E lens \in LensAround(lay, Abs(ns)), mm_room \in MitMotRooms(lay, MaxSteps) :
            InitWith(lay, ns, while, "free", mode, lens, flipped,
                     Rooms(lay, room, mm_room))

\* buffers around the number of steps the counter allows, and buffers that
\* hold the whole trace, or one entry more
LongRooms == (CondLimit..(CondLimit + 2)) \cup (LongSteps..(LongSteps + 1))

\* a loop that stops when its counter exceeds CondLimit, asked for LongSteps steps
InitLong ==
    \E lay \in Layouts, ns \in {-LongSteps, LongSteps}, mode \in StorageModes,
       flipped \in BOOLEAN, room \in LongRooms :
        \E lens \in LensAround(lay, Abs(ns)) :
            InitWith(lay, ns, TRUE, "counter", mode, lens, flipped,
                     Rooms(lay, room, LongSteps))

\* a loop with SIT-SOT outputs only, on every kind of caller storage
InitSit ==
    \E ns \in (-MaxSteps)..MaxSteps, while \in BOOLEAN, mode \in StorageModes,
       flipped \in BOOLEAN, room \in 0..(MaxSteps + 1) :
        \E lens \in LensAround(LayoutC, Abs(ns)) :
            InitWith(LayoutC, ns, while, "free", mode, lens, flipped,
                     Rooms(LayoutC, room, 0))

\* the outs list as it was when execute was entered
CallerOuts == MakeOuts(cfg, cfg.storage, cfg.rooms)

----------------------------------------------------------------------------
(* execute, step 1: unzip n_steps and the sequences *)

\* variant: only the first sequence is measured
FirstShort_HeadOnly(n) == IF cfg.n_seqs > 0 /\ Len(Arg(1)) < n THEN 1 ELSE 0

\* the first sequence (1-based) shorter than n, or 0
FirstShort(n) ==
    IF \E s \in 1..cfg.n_seqs : Len(Arg(s)) < n
    THEN CHOOSE s \in 1..cfg.n_seqs :
            Len(Arg(s)) < n /\ \A q \in 1..(s - 1) : Len(Arg(q)) >= n
    ELSE 0

\* variant: the sequences are never flipped
Flipped_Never(ns, ss) == ss

\* the sequences as the loop will index them: flipped around when ns < 0
Flipped(ns, ss) == [s \in 1..Len(ss) |-> IF ns < 0 THEN Reverse(ss[s]) ELSE ss[s]]

\* variant: the sequences are flipped whatever the sign
FlipSeqs_Always(ns) == [s \in 1..cfg.n_seqs |-> Reverse(Arg(s))]

FlipSeqs(ns) == Flipped(ns, [s \in 1..cfg.n_seqs |-> Arg(s)])

Start ==
    /\ UNCHANGED grad_locals
    /\ pc = "start"
    /\ LET n == Abs(Arg(0))
           bad == FirstShort(n)
       IN  /\ n_steps' = n
           /\ IF bad # 0
              THEN /\ pc' = "error"
                   /\ raised' = [exc |-> "ValueError",
                                 tags |-> {<<"n_steps", n>>, <<"seq", bad - 1>>,
                                           <<"shape", Len(Arg(bad))>>}]
                   /\ seqs' = seqs
              ELSE /\ pc' = "alloc"
                   /\ raised' = raised
                   /\ seqs' = FlipSeqs(Arg(0))
    /\ UNCHANGED <<cfg, args, outs, store_steps, pos, i, cond, input_storage,
                   output_storage, calls, seq_trace, cond_trace>>


----------------------------------------------------------------------------
(* execute, step 2: store_steps, pos and the storage of the tap outputs *)

\* variant: a reused buffer is not seeded with the initial state
AllocOut_Unseeded(idx, cell, store) ==
    IF cfg.inplace THEN Buf(0, Arg(seqs_arg_offset + idx))
    ELSE IF cell.alloc /\ cell.shape = 0 /\ Len(cell.data) >= store
    THEN Buf(0, Slice(cell.data, 0, store))
    ELSE Buf(0, Arg(seqs_arg_offset + idx))

\* variant: a NIT-SOT buffer is never shorter than the number of steps
StoreSteps_Padded ==
    [c \in 1..n_tracked |->
        IF c <= n_outs THEN Len(Arg(seqs_arg_offset + c - 1))
        ELSE Max2(Arg(nit_sot_arg_offset + c - n_outs - 1), n_steps)]

StoreSteps ==
    [c \in 1..n_tracked |->
        IF c <= n_outs THEN Len(Arg(seqs_arg_offset + c - 1))
        ELSE Arg(nit_sot_arg_offset + c - n_outs - 1)]

\* variant: every ring starts at slot 0
InitPos_Zero(c, store) == 0

InitPos(c, store) == (-mintaps[c]) % store

\* 2.1: the storage of tap output idx (0-based), given the caller's cell
AllocOut(idx, cell, store) ==
    LET arg == Arg(seqs_arg_offset + idx)
    IN  IF cfg.inplace THEN Buf(0, arg)
        ELSE IF cell.alloc /\ cell.shape = 0 /\ Len(cell.data) >= store
        THEN LET kept == Slice(cell.data, 0, store)
             IN  IF idx > cfg.n_mit_mot
                 THEN Buf(0, Assign(kept, 0, Slice(arg, 0, -mintaps[idx + 1])))
                 ELSE Buf(0, Assign(kept, 0, arg))
        ELSE Buf(0, arg)

\* the slot of input_storage that receives the first non-sequence argument
OtherOffset == cfg.n_seqs + SumLen(Take(cfg.tap_array, n_outs)) + cfg.n_shared_outs

Allocate ==
    /\ UNCHANGED grad_locals
    /\ pc = "alloc"
    /\ store_steps' = StoreSteps
    /\ pos' = [c \in 1..n_tracked |-> InitPos(c, StoreSteps[c])]
    /\ outs' = [c \in 1..Len(outs) |->
                  IF c <= n_outs THEN AllocOut(c - 1, outs[c], StoreSteps[c]) ELSE outs[c]]
    /\ input_storage' =
          [k \in 1..Len(input_storage) |->
              IF k > OtherOffset
              THEN Arg(nit_sot_arg_offset + cfg.n_nit_sot + (k - 1 - OtherOffset))
              ELSE input_storage[k]]
    /\ i' = 0
    /\ cond' = TRUE
    /\ pc' = "loop"
    /\ UNCHANGED <<cfg, args, n_steps, seqs, output_storage, raised, calls,
                   seq_trace, cond_trace>>

----------------------------------------------------------------------------
(* the main loop, steps 3 and 4: collect the input slices *)

\* the slice of sequence s (1-based) handed to the inner function at iteration t
SeqSlice(s, t) == seqs[s][t + 1]

\* the ring slot tap k of output c (1-based) reads
TapSlot(c, k) == (pos[c] + k) % store_steps[c]

TapReads(c) ==
    [t \in 1..Len(cfg.tap_array[c]) |-> outs[c].data[TapSlot(c, cfg.tap_array[c][t]) + 1]]

\* variant: the shared inputs are always the caller's arguments
SharedReads_FromArgs == [s \in 1..cfg.n_shared_outs |-> Arg(shared_arg_offset + s - 1)]

\* the shared inputs: the caller's argument at iteration 0, then the last output
SharedReads ==
    [s \in 1..cfg.n_shared_outs |->
        IF i = 0 THEN Arg(shared_arg_offset + s - 1)
        ELSE outs[n_outs + cfg.n_nit_sot + s]]

GatherInputs ==
    LET head == [s \in 1..cfg.n_seqs |-> SeqSlice(s, i)]
                \o Flatten([c \in 1..n_outs |-> TapReads(c)])
                \o SharedReads
    IN  head \o SubSeq(input_storage, Len(head) + 1, Len(input_storage))

\* step 4: the storage offered to the inner function for its outputs
OfferedStorage ==
    [k \in 1..Len(output_storage) |->
        LET idx == k - 1 - cfg.n_mit_mot_outs
            c == idx + cfg.n_mit_mot + 1
        IN  IF /\ idx >= 0
               /\ idx < n_outs + cfg.n_nit_sot - cfg.n_mit_mot
               /\ i # 0
               /\ cfg.n_nit_sot > 0
               /\ store_steps[c] # 1
            THEN outs[c].data[pos[c] + 1]
            ELSE NoValue]

\* variant: the continuation flag is not consulted
LoopContinues_Unconditional == i < n_steps

\* the test of the main loop
LoopContinues == i < n_steps /\ cond

Gather ==
    /\ UNCHANGED grad_locals
    /\ pc = "loop"
    /\ LoopContinues
    /\ input_storage' = GatherInputs
    /\ output_storage' = OfferedStorage
    /\ seq_trace' = Append(seq_trace, Take(GatherInputs, cfg.n_seqs))
    /\ pc' = "call"
    /\ UNCHANGED <<cfg, args, outs, n_steps, seqs, store_steps, pos, i, cond,
                   raised, calls, cond_trace>>

----------------------------------------------------------------------------
(* step 5: the inner function *)

\* the step applied to a shared value
Bump(x) == <<x[1], x[2], x[3] + 1>>

SharedOffset == cfg.n_seqs + SumLen(Take(cfg.tap_array, n_outs))

\* numbers among the values
Num(v) == <<"num", v, 0>>

\* the values that are numbers
IsNum(x) == x[1] = "num" \/ x = Zero

NumOf(x) == IF x = Zero THEN 0 ELSE x[2]

\* the inner input of a backward op that carries tag
InputCarrying(ins, tag) == CHOOSE k \in 1..Len(ins) : ins[k] = tag

\* the inner input a term of a gradient sum reads: the incoming gradient of
\* output dx for a local gradient <<"d", dx, p>>, the sum accumulated so far
\* for <<"g_prev", p, 0>>
TermInput(term) ==
    input_storage[InputCarrying(cfg.fn_ins,
                                IF term[1] = "d" THEN <<"g", term[2], 0>> ELSE term)]

\* the term is a number: a zero, or a gradient read from a numeric input
TermIsNum(term) ==
    \/ term[1] = "zeros_like"
    \/ term[1] \in {"d", "g_prev"} /\ IsNum(TermInput(term))

\* a term of a gradient sum that forgets what was accumulated so far
TermValue_NoPrev(term) == IF term[1] = "d" THEN NumOf(TermInput(term)) ELSE 0

\* one term of a gradient sum, for a forward inner function that copies its
\* inputs to its outputs: the local gradient <<"d", dx, p>> times the incoming
\* gradient of output dx is that incoming gradient
TermValue(term) == IF term[1] = "zeros_like" THEN 0 ELSE NumOf(TermInput(term))

RECURSIVE SumTerms(_)
SumTerms(terms) ==
    IF terms = << >> THEN 0 ELSE TermValue(Head(terms)) + SumTerms(Tail(terms))

\* the value of inner output k of a backward op at iteration t: the sum of
\* its terms, or a value that names the output when a term is no number
SumValue(k, t) ==
    IF \A n \in 1..Len(cfg.fn[k]) : TermIsNum(cfg.fn[k][n])
    THEN Num(SumTerms(cfg.fn[k]))
    ELSE <<"step", k - 1, t>>

\* what the inner function returns at iteration t, v its termination scalar:
\* values that name the output and the iteration, or, for an op that carries
\* the gradient sums of grad as its inner graph (cfg.fn), their values
FnOutputs(t, v) ==
    IF "fn" \in DOMAIN cfg
    THEN [k \in 1..Len(cfg.fn) |-> SumValue(k, t)]
    ELSE
    Flatten([c \in 1..cfg.n_mit_mot |->
                [m \in 1..Len(cfg.mit_mot_out_slices[c]) |-> <<"step", c - 1, t>>]])
    \o [c \in 1..(n_tracked - cfg.n_mit_mot) |-> <<"step", cfg.n_mit_mot + c - 1, t>>]
    \o [s \in 1..cfg.n_shared_outs |-> Bump(input_storage[SharedOffset + s])]
    \o (IF cfg.as_while THEN << <<"cond", 0, v>> >> ELSE << >>)

\* the termination scalars the inner function may return
CondValues ==
    IF ~cfg.as_while THEN {0}
    ELSE IF cfg.until = "counter"
    THEN {IF Bump(input_storage[SharedOffset + 1])[3] > CondLimit THEN 1 ELSE 0}
    ELSE {0, 1}

\* the failures of the inner function: position is the index of the failing node
\* when fn has position_of_error (a vm function), -1 for an old-style linker
InnerFailures == {[exc |-> "InnerError", position |-> p] : p \in (-1)..(MaxInnerNodes - 1)}

\* variant: the iteration index is attached to the error
Propagate_Indexed(e) ==
    [exc |-> e.exc,
     tags |-> {<<"iteration", i>>} \cup
              (IF e.position >= 0 THEN {<<"node", e.position>>} ELSE {})]

\* the except clause around fn(): what reaches the caller of execute
Propagate(e) ==
    IF e.position >= 0
    THEN [exc |-> e.exc, tags |-> {<<"node", e.position>>}]
    ELSE [exc |-> e.exc, tags |-> {}]

\* the continuation flag after the call
NextCond(out) == IF cfg.as_while THEN out[Len(out)][3] = 0 ELSE cond

\* variant: every SOT output is handed its ring slot, whatever the iteration
Offered_Always(c) == c > cfg.n_mit_mot /\ c <= n_tracked

\* step 4: tracked output c (1-based) is handed its ring slot as output storage
Offered(c) ==
    /\ c > cfg.n_mit_mot
    /\ c <= n_tracked
    /\ i # 0
    /\ cfg.n_nit_sot > 0
    /\ store_steps[c] # 1

\* outs with the shared memory of the initial states written through
WriteThrough(a, o) ==
    IF cfg.inplace
    THEN [k \in 1..Len(a) |->
            IF k - 1 >= seqs_arg_offset /\ k - 1 < seqs_arg_offset + n_outs
            THEN o[k - seqs_arg_offset].data
            ELSE a[k]]
    ELSE a

SetEntry(buf, slot, value) == [buf EXCEPT !.data[slot + 1] = value]

\* the buffers after a call that failed: the inner function had written the
\* outputs w into the ring slots it was handed before it raised
PartialWrites(w) ==
    [c \in 1..Len(outs) |->
        IF c \in w THEN SetEntry(outs[c], pos[c], <<"step", c - 1, i>>) ELSE outs[c]]

Call ==
    /\ UNCHANGED grad_locals
    /\ pc = "call"
    /\ calls' = calls + 1
    /\ \/ \E v \in CondValues :
            /\ output_storage' = FnOutputs(i, v)
            /\ cond' = NextCond(FnOutputs(i, v))
            /\ cond_trace' = IF cfg.as_while THEN Append(cond_trace, v) ELSE cond_trace
            /\ raised' = raised
            /\ pc' = "scatter"
            /\ UNCHANGED <<args, outs>>
       \/ \E e \in InnerFailures, w \in SUBSET {c \in 1..n_tracked : Offered(c)} :
            /\ raised' = Propagate(e)
            /\ pc' = "error"
            /\ outs' = PartialWrites(w)
            /\ args' = WriteThrough(args, PartialWrites(w))
            /\ UNCHANGED <<output_storage, cond, cond_trace>>
    /\ UNCHANGED <<cfg, n_steps, seqs, store_steps, pos, i, input_storage, seq_trace>>


----------------------------------------------------------------------------
(* step 5.1 to 5.4: copy the outputs into the buffers, advance the positions *)

\* 5.1: MIT-MOT output j (0-based), its slice number m, reading output slot off;
\* the index k + pos[j] is used as it is
RECURSIVE ScatterMitMot(_, _, _, _)
ScatterMitMot(st, j, m, off) ==
    IF st.err \/ j >= cfg.n_mit_mot THEN st
    ELSE IF m > Len(cfg.mit_mot_out_slices[j + 1]) THEN ScatterMitMot(st, j + 1, 1, off)
    ELSE LET at == PyIndex(cfg.mit_mot_out_slices[j + 1][m] + pos[j + 1],
                           Len(st.outs[j + 1].data))
         IN  IF at < 0 THEN [st EXCEPT !.err = TRUE]
             ELSE ScatterMitMot(
                    [st EXCEPT !.outs[j + 1] = SetEntry(@, at, output_storage[off + 1])],
                    j, m + 1, off + 1)

\* variant: whatever buffer the caller left is kept as it is
AllocNitSot_KeepCaller(cell, store) ==
    IF ~cell.alloc THEN Buf(0, Zeros(store)) ELSE cell

\* 5.3 at the first iteration: the buffer of a NIT-SOT output
AllocNitSot(cell, store) ==
    IF ~cell.alloc \/ Len(cell.data) < store \/ cell.shape # 0
    THEN Buf(0, Zeros(store))
    ELSE IF Len(cell.data) # store THEN Buf(0, Slice(cell.data, 0, store))
    ELSE cell

\* 5.2 to 5.4 for cell c (1-based) of outs
ScatterCell(o, c) ==
    LET offset_out == cfg.n_mit_mot_outs - cfg.n_mit_mot
        value == output_storage[offset_out + c]
    IN  IF c <= cfg.n_mit_mot THEN o[c]
        ELSE IF c <= n_outs THEN SetEntry(o[c], pos[c], value)
        ELSE IF c <= n_tracked
        THEN IF i = 0
             THEN SetEntry(AllocNitSot(o[c], store_steps[c]), pos[c], value)
             ELSE SetEntry(o[c], pos[c], value)
        ELSE value

\* variant: the MIT-MOT positions stay where they are
AdvancePos_SotOnly(c) ==
    IF c <= cfg.n_mit_mot THEN pos[c] ELSE (pos[c] + 1) % store_steps[c]

\* lines 812-813
AdvancePos(c) == (pos[c] + 1) % store_steps[c]

\* variant: the counter is left where it is
NextIteration_Same == i

\* line 814
NextIteration == i + 1

Scatter ==
    /\ UNCHANGED grad_locals
    /\ pc = "scatter"
    /\ LET mm == ScatterMitMot([outs |-> outs, err |-> FALSE], 0, 1, 0)
       IN  IF mm.err
           THEN /\ outs' = mm.outs
                /\ args' = WriteThrough(args, mm.outs)
                /\ raised' = [exc |-> "IndexError", tags |-> {}]
                /\ pc' = "error"
                /\ UNCHANGED <<pos, i>>
           ELSE /\ outs' = [c \in 1..Len(outs) |-> ScatterCell(mm.outs, c)]
                /\ args' = WriteThrough(args, [c \in 1..Len(outs) |-> ScatterCell(mm.outs, c)])
                /\ pos' = [c \in 1..n_tracked |-> AdvancePos(c)]
                /\ i' = NextIteration
                /\ raised' = raised
                /\ pc' = "loop"
    /\ UNCHANGED <<cfg, n_steps, seqs, store_steps, cond, input_storage,
                   output_storage, calls, seq_trace, cond_trace>>

----------------------------------------------------------------------------
(* step 6: re-order, zero-fill and cut the output buffers *)

\* variant: the buffer is left in ring order
Reorder_Skipped(data, store, pdx) == data

\* variant: the part before the split is the one set aside
Tmp_Head(data, store, pdx) == Slice(data, 0, pdx)

\* lines 825-845: the part of the ring copied to tmp
Tmp(data, store, pdx) ==
    IF pdx < store \div 2 THEN Slice(data, 0, pdx) ELSE Slice(data, pdx, Len(data))

\* lines 824-848: rotate the ring of length store split at pdx
Reorder(data, store, pdx) ==
    IF pdx < store \div 2
    THEN LET tmp == Tmp(data, store, pdx)
             moved == Assign(data, 0, Slice(data, pdx, Len(data)))
         IN  Assign(moved, store - pdx, tmp)
    ELSE LET tmp == Tmp(data, store, pdx)
             moved == Assign(data, store - pdx, Slice(data, 0, pdx))
         IN  Assign(moved, 0, tmp)

\* the branch step 6 takes for tracked output c (1-based)
NeedsReorder(c) == store_steps[c] < i - mintaps[c] /\ pos[c] < store_steps[c]

\* variant: only a loop that stopped early zero-fills
NeedsZeroFill_EarlyOnly(c) ==
    ~NeedsReorder(c) /\ store_steps[c] > i - mintaps[c] /\ i < n_steps

NeedsZeroFill(c) == ~NeedsReorder(c) /\ store_steps[c] > i - mintaps[c]

\* step 6 for one buffer: the cell returned, the memory behind it, and whether
\* the statement failed (an empty cell cannot be indexed)
PostLoop(cell, c) ==
    IF NeedsReorder(c)
    THEN LET d == Reorder(cell.data, store_steps[c], pos[c])
         IN  [cell |-> [cell EXCEPT !.data = d], mem |-> d, err |-> FALSE]
    ELSE IF NeedsZeroFill(c)
    THEN IF ~cell.alloc THEN [cell |-> cell, mem |-> cell.data, err |-> TRUE]
         ELSE LET d == Fill(cell.data, i - mintaps[c], Zero)
              IN  [cell |-> [cell EXCEPT !.data =
                                IF i < n_steps THEN DropLast(d, n_steps - i) ELSE d],
                   mem |-> d, err |-> FALSE]
    ELSE [cell |-> cell, mem |-> cell.data, err |-> FALSE]

\* the first output from c on at which step 6 fails, n_tracked + 1 when none does
FirstFailing(o, c) ==
    LET failing == {k \in c..n_tracked : PostLoop(o[k], k).err}
    IN  IF failing = {} THEN n_tracked + 1
        ELSE CHOOSE k \in failing : \A m \in failing : k <= m

\* step 6 over the outputs from c on, stopping at the first failure
PostLoopFrom(st, c) ==
    IF st.err \/ c > n_tracked THEN st
    ELSE LET stop == FirstFailing(st.outs, c)
         IN  [outs |-> [k \in 1..Len(st.outs) |->
                          IF k >= c /\ k < stop THEN PostLoop(st.outs[k], k).cell
                          ELSE st.outs[k]],
              mems |-> [k \in 1..Len(st.mems) |->
                          IF k >= c /\ k < stop
                          THEN [st.mems[k] EXCEPT !.data = PostLoop(st.outs[k], k).mem]
                          ELSE st.mems[k]],
              err |-> stop <= n_tracked]

\* variant: step 6 goes over the MIT-MOT outputs too
begin_AllOutputs(op) == 0

\* line 817: the first output (0-based) step 6 looks at
begin(op) == op.n_mit_mot

Finish ==
    /\ UNCHANGED grad_locals
    /\ pc = "loop"
    /\ ~LoopContinues
    /\ LET r == PostLoopFrom([outs |-> outs, mems |-> outs, err |-> FALSE], begin(cfg) + 1)
       IN  /\ outs' = r.outs
           /\ args' = WriteThrough(args, r.mems)
           /\ IF r.err
              THEN /\ raised' = [exc |-> "TypeError", tags |-> {}]
                   /\ pc' = "error"
              ELSE /\ raised' = raised
                   /\ pc' = "done"
    /\ UNCHANGED <<cfg, n_steps, seqs, store_steps, pos, i, cond, input_storage,
                   output_storage, calls, seq_trace, cond_trace>>

----------------------------------------------------------------------------

Next == Start \/ Allocate \/ Gather \/ Call \/ Scatter \/ Finish

Spec == Init /\ [][Next]_vars

SpecLong == InitLong /\ [][Next]_vars

SpecSit == InitSit /\ [][Next]_vars


----------------------------------------------------------------------------
(* Vocabulary of the properties *)

\* the outputs execute tracks with a ring position, 1-based: all, the
\* MIT-SOT/SIT-SOT ones, and those with the NIT-SOT ones
Tracked == 1..n_tracked

TapSot == (cfg.n_mit_mot + 1)..n_outs

Sot == (cfg.n_mit_mot + 1)..n_tracked

\* the slot of input_storage that holds the read of tap number t of output c
TapInputSlot(c, t) == cfg.n_seqs + SumLen(Take(cfg.tap_array, c - 1)) + t

\* entry m (0-based, negative inside the seeded history) of the logical trace
\* of output c: the seeded entries, then the step outputs
TraceEntry(c, m) ==
    IF m >= 0 THEN <<"step", c - 1, m>> ELSE <<"init", c - 1, m - mintaps[c]>>

\* the logical trace of output c after t iterations
LogicalTrace(c, t) == [k \in 1..(t - mintaps[c]) |-> TraceEntry(c, k - 1 + mintaps[c])]

LastEntries(a, n) == SubSeq(a, Len(a) - n + 1, Len(a))

Running == pc \in {"loop", "call", "scatter", "done"}

ShortSequence == \E s \in 1..cfg.n_seqs : Len(Arg(s)) < Abs(Arg(0))

\* the 0-based iteration whose termination scalar was the first non-zero one, or -1
FirstStop ==
    IF \E k \in 1..Len(cond_trace) : cond_trace[k] # 0
    THEN (CHOOSE k \in 1..Len(cond_trace) :
            cond_trace[k] # 0 /\ \A j \in 1..(k - 1) : cond_trace[j] = 0) - 1
    ELSE -1

----------------------------------------------------------------------------
(* C1: for every MIT-SOT/SIT-SOT output whose store_steps is at least        *)
(* -mintap, at every iteration i and for every tap k, the value gathered     *)
(* from slot (pos + k) mod store_steps is the value iteration i + k wrote,   *)
(* or the seeded entry i + k - mintap when i + k < 0.                        *)
C1_TapReadsResolve ==
    pc = "call" =>
        \A c \in TapSot :
            store_steps[c] >= -mintaps[c] =>
                \A t \in 1..Len(cfg.tap_array[c]) :
                    LET k == cfg.tap_array[c][t]
                    IN  /\ input_storage[TapInputSlot(c, t)] = TraceEntry(c, i + k)
                        /\ outs[c].data[((pos[c] + k) % store_steps[c]) + 1]
                             = TraceEntry(c, i + k)

\* a read of a step output through the oldest tap of a ring that has wrapped,
\* on a buffer the caller provided
C1_Witness ==
    /\ pc = "call"
    /\ cfg.storage = "long"
    /\ \E c \in TapSot :
          /\ Len(cfg.tap_array[c]) > 1
          /\ i + mintaps[c] >= 0
          /\ i - mintaps[c] > store_steps[c]

(* C2: after i iterations, every MIT-SOT/SIT-SOT/NIT-SOT output whose        *)
(* logical trace has at least store_steps entries is returned holding the    *)
(* last store_steps trace entries in chronological order, oldest first.      *)
C2_Linearized ==
    pc = "done" =>
        \A c \in Sot :
            i - mintaps[c] >= store_steps[c] =>
                outs[c].data = LastEntries(LogicalTrace(c, i), store_steps[c])

\* a ring that wrapped and stopped at a position in its second half
C2_Witness ==
    /\ pc = "done"
    /\ \E c \in Sot :
          /\ i - mintaps[c] > store_steps[c]
          /\ pos[c] # 0
          /\ pos[c] >= store_steps[c] \div 2
          /\ store_steps[c] > 2

(* C3: after i iterations, in every MIT-SOT/SIT-SOT/NIT-SOT output with      *)
(* store_steps > i - mintap every returned entry at index >= i - mintap is   *)
(* zero.                                                                     *)
C3_TailZero ==
    pc = "done" =>
        \A c \in Sot :
            store_steps[c] > i - mintaps[c] =>
                \A k \in 1..Len(outs[c].data) :
                    k > i - mintaps[c] => outs[c].data[k] = Zero

\* a reused caller buffer whose tail held prior content, returned with a tail
C3_Witness ==
    /\ pc = "done"
    /\ cfg.storage = "exact"
    /\ i > 0
    /\ \E c \in TapSot :
          /\ c - 1 > cfg.n_mit_mot
          /\ store_steps[c] > i - mintaps[c]
          /\ Len(outs[c].data) > i - mintaps[c]

(* C4: in while-mode the inner function is invoked min(|n_steps|, k + 1)     *)
(* times, k the first iteration whose termination scalar is non-zero; the    *)
(* outputs of every invoked iteration, the last one included, are copied     *)
(* into the buffers and the positions advanced. In for-mode it is invoked    *)
(* |n_steps| times.                                                          *)
C4_InvocationCount ==
    /\ pc = "done" =>
          /\ calls = IF cfg.as_while /\ FirstStop >= 0
                     THEN Min2(Abs(Arg(0)), FirstStop + 1)
                     ELSE Abs(Arg(0))
          /\ i = calls
          /\ Len(cond_trace) = IF cfg.as_while THEN calls ELSE 0
    /\ pc = "loop" /\ i > 0 =>
          /\ i = calls
          /\ \A c \in Tracked : pos[c] = (i - mintaps[c]) % store_steps[c]
          /\ \A c \in Sot :
                outs[c].data[((pos[c] - 1) % store_steps[c]) + 1] = <<"step", c - 1, i - 1>>
          /\ \A s \in 1..cfg.n_shared_outs : outs[n_tracked + s] = <<"shared", s - 1, i>>

\* a while loop stopped by its condition before n_steps, after more than one step
C4_Witness ==
    /\ pc = "done"
    /\ cfg.as_while
    /\ FirstStop = 1
    /\ calls = 2
    /\ Abs(Arg(0)) > 2


(* C5: a loop that stops when a counter exceeds 3, given n_steps = 100,      *)
(* executes exactly 4 iterations and returns MIT-SOT/SIT-SOT buffers that    *)
(* contain trailing zero-filled entries from iteration 4 onward. Stated for  *)
(* the buffers that hold the whole trace or more: what is returned has       *)
(* entries past the 4 executed steps, all zero.                              *)
C5_TrailingZerosKept ==
    pc = "done" =>
        /\ calls = CondLimit + 1
        /\ \A c \in TapSot :
              store_steps[c] >= n_steps - mintaps[c] =>
                  /\ Len(outs[c].data) > calls - mintaps[c]
                  /\ \A k \in 1..Len(outs[c].data) :
                        k > calls - mintaps[c] => outs[c].data[k] = Zero

(* C5 as the code has it: exactly 4 iterations are executed; a               *)
(* MIT-SOT/SIT-SOT buffer with store_steps > 4 - mintap is zero-filled from  *)
(* iteration 4 onward and then cut by the n_steps - 4 steps that did not     *)
(* run, so a buffer that held the whole trace is returned as the seeded      *)
(* history and the 4 computed values with no trailing entry, and zero        *)
(* entries remain only where store_steps exceeds n_steps - mintap.           *)
C5_CutToExecuted ==
    pc = "done" =>
        /\ calls = CondLimit + 1
        /\ \A c \in TapSot :
              store_steps[c] > calls - mintaps[c] =>
                  /\ Len(outs[c].data) = Max2(store_steps[c] - (n_steps - calls), 0)
                  /\ store_steps[c] = n_steps - mintaps[c]
                        => outs[c].data = LogicalTrace(c, calls)
                  /\ store_steps[c] <= n_steps - mintaps[c]
                        => \A k \in 1..Len(outs[c].data) : outs[c].data[k] # Zero
                  /\ \A k \in 1..Len(outs[c].data) :
                        outs[c].data[k] = IF k <= calls - mintaps[c]
                                          THEN LogicalTrace(c, calls)[k]
                                          ELSE Zero

\* the loop of the claim on a reused buffer that held the whole trace
C5_Witness ==
    /\ pc = "done"
    /\ Arg(0) = LongSteps
    /\ cfg.storage = "exact"
    /\ \E c \in TapSot : store_steps[c] = n_steps - mintaps[c]

(* C6: with negative n_steps the loop runs |n_steps| iterations and          *)
(* iteration i receives element L-1-i of each plain sequence of length L;    *)
(* with non-negative n_steps it receives element i. The ring positions do    *)
(* not depend on the direction.                                              *)
C6_Direction ==
    /\ Running => n_steps = Abs(Arg(0))
    /\ pc = "done" /\ ~cfg.as_while => i = Abs(Arg(0))
    /\ pc = "call" =>
          /\ \A s \in 1..cfg.n_seqs :
                input_storage[s] = IF Arg(0) < 0
                                   THEN Arg(s)[(Len(Arg(s)) - 1 - i) + 1]
                                   ELSE Arg(s)[i + 1]
          /\ \A c \in Tracked : pos[c] = (i - mintaps[c]) % store_steps[c]
          /\ \A c \in 1..n_outs : \A t \in 1..Len(cfg.tap_array[c]) :
                input_storage[TapInputSlot(c, t)]
                  = outs[c].data[((i - mintaps[c] + cfg.tap_array[c][t]) % store_steps[c]) + 1]

\* a later iteration of a reversed loop over a sequence longer than the loop
C6_Witness ==
    /\ pc = "call"
    /\ Arg(0) < 0
    /\ i > 0
    /\ Len(Arg(1)) > n_steps

\* the run with the sign of n_steps reversed and every plain sequence reversed:
\* the sequence slots it hands to the inner function, per iteration
MirrorTrace ==
    LET mirrored == Flipped(-Arg(0), [s \in 1..cfg.n_seqs |-> Reverse(Arg(s))])
    IN  [t \in 1..Len(seq_trace) |-> [s \in 1..cfg.n_seqs |-> mirrored[s][t]]]

(* C7: reversing the sign of n_steps and reversing every plain sequence      *)
(* reproduces the per-step sequence inputs of the original run in reverse    *)
(* order.                                                                    *)
C7_MirrorReversed == pc = "done" => seq_trace = Reverse(MirrorTrace)

(* C7 as the code has it: reversing the sign of n_steps and reversing every  *)
(* plain sequence reproduces the per-step sequence inputs of the original    *)
(* run in the same order.                                                    *)
C7_MirrorSameOrder == pc = "done" => seq_trace = MirrorTrace

\* a forward run of several steps over a sequence longer than the loop
C7_Witness ==
    /\ pc = "done"
    /\ Arg(0) > 1
    /\ Len(seq_trace) = Arg(0)
    /\ Len(Arg(1)) > n_steps

(* C8: if any plain sequence has fewer than |n_steps| entries, execute       *)
(* raises before the inner function is invoked and before any output buffer  *)
(* is allocated, seeded or written, for both signs of n_steps.               *)
C8_ShortSequenceRejected ==
    ShortSequence =>
        /\ pc \in {"start", "error"}
        /\ pc = "error" => raised.exc = "ValueError"
        /\ calls = 0
        /\ outs = CallerOuts
        /\ store_steps = << >>
        /\ \A k \in 1..Len(input_storage) : input_storage[k] = NoValue

\* a reversed loop whose second sequence alone is short, on caller buffers
C8_Witness ==
    /\ pc = "error"
    /\ raised.exc = "ValueError"
    /\ Arg(0) < 0
    /\ cfg.storage = "exact"
    /\ cfg.n_seqs = 2
    /\ Len(Arg(1)) >= Abs(Arg(0))

\* the NIT-SOT outputs whose length argument is below the number of steps
NitShort ==
    {c \in (n_outs + 1)..n_tracked :
        Arg(nit_sot_arg_offset + c - n_outs - 1) < Abs(Arg(0))}

----------------------------------------------------------------------------
(* Vocabulary of C11 *)

\* the call of the inner function raised and the error left execute
InnerAbort == pc = "error" /\ raised.exc = "InnerError"

\* the ring slot of output c that iteration t writes
SlotOf(c, t) == (InitPos(c, store_steps[c]) + t) % store_steps[c]

\* the entries of SOT output c written by iterations from..i-1 hold the value written
StepsKept(c, from) ==
    \A t \in from..(i - 1) :
        t >= 0 => outs[c].data[SlotOf(c, t) + 1] = <<"step", c - 1, t>>

\* the entries of MIT-MOT output c that no later iteration wrote again hold the
\* value written
MitMotKept(c) ==
    \A t \in 0..(i - 1) : \A m \in 1..Len(cfg.mit_mot_out_slices[c]) :
        LET at == cfg.mit_mot_out_slices[c][m] + SlotOf(c, t)
        IN  (\A t2 \in (t + 1)..(i - 1) : \A m2 \in 1..Len(cfg.mit_mot_out_slices[c]) :
                cfg.mit_mot_out_slices[c][m2] + SlotOf(c, t2) # at)
            => outs[c].data[at + 1] = <<"step", c - 1, t>>

\* what the abort leaves alone whatever the inner function did: one call, no
\* further step, positions as iteration i found them, buffers neither cut nor
\* zero-filled
AbortLeaves ==
    /\ calls = i + 1
    /\ ~ENABLED Next
    /\ \A c \in Tracked : pos[c] = SlotOf(c, i)
    /\ \A c \in TapSot :
          /\ Len(outs[c].data) = store_steps[c]
          /\ \A k \in 1..Len(outs[c].data) : outs[c].data[k] # Zero
    /\ \A c \in Sot : i > 0 => outs[c].alloc /\ Len(outs[c].data) = store_steps[c]
    /\ \A c \in 1..cfg.n_mit_mot : MitMotKept(c)

(* C11: when the inner function raises during iteration i, the call is not   *)
(* retried, no later iteration runs, the ring positions are not advanced, no *)
(* rotation, zero-fill or trim is applied, and every buffer entry written by *)
(* iterations 0..i-1 (and not written again by a later one of them) still    *)
(* holds the value written.                                                  *)
C11_AbortKeepsWritten ==
    InnerAbort =>
        /\ AbortLeaves
        /\ \A c \in Sot : StepsKept(c, i - store_steps[c])

(* C11 as the code has it: the same, except that the entry at the current    *)
(* ring position of a MIT-SOT/SIT-SOT/NIT-SOT buffer that was handed to the  *)
(* inner function as output storage (i > 0, the op has a NIT-SOT output,     *)
(* store_steps # 1) holds either the value iteration i - store_steps wrote   *)
(* or what the failed call left there.                                       *)
C11_AbortKeepsUnoffered ==
    InnerAbort =>
        /\ AbortLeaves
        /\ \A c \in Sot :
              /\ StepsKept(c, i - store_steps[c] + 1)
              /\ (i = 0 \/ cfg.n_nit_sot = 0 \/ store_steps[c] = 1)
                    => StepsKept(c, i - store_steps[c])
              /\ i >= store_steps[c] =>
                    outs[c].data[pos[c] + 1]
                        \in {<<"step", c - 1, i>>, <<"step", c - 1, i - store_steps[c]>>}

\* the inner function raised on a ring that had wrapped, after writing into the
\* slot it was handed, and an entry of an earlier iteration is still in place
C11_Witness ==
    /\ InnerAbort
    /\ \E c \in Sot :
          /\ i >= store_steps[c]
          /\ store_steps[c] > 1
          /\ outs[c].data[pos[c] + 1] = <<"step", c - 1, i>>
          /\ outs[c].data[SlotOf(c, i - 1) + 1] = <<"step", c - 1, i - 1>>

----------------------------------------------------------------------------
(* C12: at iteration 0 each shared input slot holds the caller's initial     *)
(* shared argument; at every iteration i > 0 it holds the shared output      *)
(* iteration i - 1 produced. Each shared output is replaced once per         *)
(* iteration: after i >= 1 iterations it is the value the last of them       *)
(* produced, the initial argument stepped i times.                           *)
C12_SharedThreaded ==
    \A s \in 1..cfg.n_shared_outs :
        /\ pc = "call" =>
              /\ input_storage[SharedOffset + s] = <<"shared", s - 1, i>>
              /\ i = 0 => input_storage[SharedOffset + s] = Arg(shared_arg_offset + s - 1)
              /\ i > 0 => input_storage[SharedOffset + s] = outs[n_tracked + s]
        /\ pc = "scatter" =>
              output_storage[cfg.n_mit_mot_outs + n_tracked - cfg.n_mit_mot + s]
                  = <<"shared", s - 1, i + 1>>
        /\ (pc \in {"loop", "done"} /\ i >= 1) => outs[n_tracked + s] = <<"shared", s - 1, i>>

\* the third call of a loop whose caller left an older value in the shared cell
C12_Witness ==
    /\ pc = "call"
    /\ i = 2
    /\ cfg.n_shared_outs > 0
    /\ CallerOuts[n_tracked + 1] = <<"stale", 0, 0>>
    /\ input_storage[SharedOffset + 1] = <<"shared", 0, 2>>

----------------------------------------------------------------------------
\* the NIT-SOT outputs, 1-based
NitSot == (n_outs + 1)..n_tracked

(* C13: in for-mode, a NIT-SOT output whose length argument equals n_steps   *)
(* (n_steps >= 1) is returned with exactly n_steps entries of the per-step   *)
(* shape the inner function produced, entry t being the value iteration t    *)
(* produced, whether the buffer was allocated at iteration 0 or a compatible *)
(* buffer of the caller was reused.                                          *)
C13_NitSotStacked ==
    (pc = "done" /\ ~cfg.as_while /\ n_steps >= 1) =>
        \A c \in NitSot :
            store_steps[c] = n_steps =>
                /\ outs[c].alloc
                /\ outs[c].shape = 0
                /\ outs[c].data = [k \in 1..n_steps |-> <<"step", c - 1, k - 1>>]

\* three steps stacked into a longer buffer of the caller, cut to three entries
C13_Witness ==
    /\ pc = "done"
    /\ ~cfg.as_while
    /\ n_steps = MaxSteps
    /\ cfg.storage = "long"
    /\ \E c \in NitSot : store_steps[c] = n_steps /\ Len(outs[c].data) = n_steps

\* three steps stacked into a buffer allocated at iteration 0
C13_WitnessFresh ==
    /\ pc = "done"
    /\ ~cfg.as_while
    /\ n_steps = MaxSteps
    /\ cfg.storage \in {"none", "badshape", "short"}
    /\ \E c \in NitSot : store_steps[c] = n_steps /\ Len(outs[c].data) = n_steps

----------------------------------------------------------------------------
\* what a run that made i iterations returns for MIT-SOT/SIT-SOT output c, from
\* the arguments alone: the trace, its last store_steps entries when the buffer
\* is shorter, zeros behind it when the buffer is longer, less the steps an
\* early stop left out
Returned(c) ==
    LET store == Len(Arg(seqs_arg_offset + c - 1))
        made == i - mintaps[c]
        trace == LogicalTrace(c, i)
    IN  IF store <= made THEN LastEntries(trace, store)
        ELSE IF i < n_steps
        THEN Take(trace \o Zeros(store - made), Max2(store - (n_steps - i), 0))
        ELSE trace \o Zeros(store - made)

(* C14: with SIT-SOT outputs only, what execute returns is determined by its *)
(* arguments and by what the inner function returned: two runs on the same   *)
(* inputs return the same buffers, whatever the output cells held before     *)
(* (nothing, a buffer of another shape or length, or a usable buffer with    *)
(* prior contents such as the outputs of an earlier run).                    *)
C14_Deterministic ==
    pc = "done" =>
        \A c \in TapSot : outs[c] = Buf(0, Returned(c))

\* a run on a reused buffer of which the loop wrote only a part: the second
\* output, seeded with its history only, ends in zeros where prior contents were
C14_Witness ==
    /\ pc = "done"
    /\ cfg.n_mit_sot = 0 /\ cfg.n_nit_sot = 0 /\ cfg.n_sit_sot = 2
    /\ cfg.storage \in {"exact", "long"}
    /\ i >= 1
    /\ store_steps[2] > i + 2
    /\ CallerOuts[2].data[store_steps[2]] = <<"stale", 1, store_steps[2] - 1>>
    /\ outs[2].data[Len(outs[2].data)] = Zero

----------------------------------------------------------------------------
(* Scan.grad: the construction of the backward op                            *)
(*                                                                           *)
(* Outer variables are expressions [base, k, ops]: entry k of args, g_outs,  *)
(* scan_outputs (the forward outputs) or outputs (the backward outputs),     *)
(* under the slicings ops applied in order. args[0] is the value of n_steps. *)
(* Inner gradient terms are triples: <<"d", dx, p>> the gradient of inner    *)
(* output dx with respect to diff_inputs[p], <<"g_prev", p, 0>> the gradient *)
(* carried from the previous backward step, <<"zeros_like", p, 0>>.          *)

\* the largest number of plain sequences, of MIT-SOT outputs, of non-sequences
MaxPlain == 2

\* the largest number of MIT-MOT, SIT-SOT, NIT-SOT and shared outputs
MaxSingle == 1

\* the limit of the forward ops that truncate their gradient
Truncate == 2

Var(base, k) == [base |-> base, k |-> k, ops |-> << >>]

None == [base |-> "None", k |-> 0, ops |-> << >>]

\* x[::-1]
Rev(x) == [x EXCEPT !.ops = Append(@, <<"rev", 0, 0>>)]

\* x[lo:hi]; hi = 0 stands for an open end, hi < 0 counts from the end
Cut(x, lo, hi) == [x EXCEPT !.ops = Append(@, <<"slice", lo, hi>>)]

\* the taps of the forward ops grad is applied to: MIT-MOT j reads 0..j+1 and
\* writes 1..j+1, MIT-SOT j reads -(j+2) and -1, SIT-SOT reads -1
GradTaps(n_mm, n_ms, n_ss) ==
    [j \in 1..n_mm |-> [k \in 1..(j + 1) |-> k - 1]]
    \o [j \in 1..n_ms |-> <<-(j + 1), -1>>]
    \o [j \in 1..n_ss |-> <<-1>>]

GradSlices(n_mm) == [j \in 1..n_mm |-> [k \in 1..j |-> k]]

\* the forward op: its info and, for its inner graph, deps: the pairs <<dx, p>>
\* such that inner output dx has a gradient path to diff_inputs[p]
ForwardOp(n_s, n_mm, n_ms, n_ss, n_ns, n_sh, n_o, trunc, while, deps) ==
    [n_seqs |-> n_s, n_mit_mot |-> n_mm, n_mit_sot |-> n_ms, n_sit_sot |-> n_ss,
     n_nit_sot |-> n_ns, n_shared_outs |-> n_sh,
     n_mit_mot_outs |-> SumLen(GradSlices(n_mm)), n_other |-> n_o,
     tap_array |-> GradTaps(n_mm, n_ms, n_ss), mit_mot_out_slices |-> GradSlices(n_mm),
     truncate_gradient |-> trunc, as_while |-> while, inplace |-> FALSE, deps |-> deps]

\* the number of arguments of an op
NumArgs(op) ==
    1 + op.n_seqs + Len(op.tap_array) + op.n_shared_outs + op.n_nit_sot + op.n_other

\* the number of outputs of an op, the termination scalar left out
NumOuts(op) == Len(op.tap_array) + op.n_nit_sot + op.n_shared_outs

n_ins_mit_mot(op) == SumLen(Take(op.tap_array, op.n_mit_mot))

n_ins_mit_sot(op) ==
    SumLen(SubSeq(op.tap_array, op.n_mit_mot + 1, op.n_mit_mot + op.n_mit_sot))

\* self_inputs, the clone of the inner inputs
self_inputs(op) == [k \in 1..NumInputSlots(op) |-> <<"in", k - 1, 0>>]

other_args(op) ==
    Slice(self_inputs(op),
          op.n_seqs + n_ins_mit_mot(op) + n_ins_mit_sot(op) + op.n_sit_sot
            + op.n_shared_outs,
          Len(self_inputs(op)))

\* step 4
diff_inputs(op) ==
    Slice(self_inputs(op), 0,
          op.n_seqs + n_ins_mit_mot(op) + n_ins_mit_sot(op) + op.n_sit_sot)
    \o other_args(op)

\* step 6: the number of inner outputs that are not shared outputs
NumClean(op) == op.n_mit_mot_outs + op.n_mit_sot + op.n_sit_sot + op.n_nit_sot

\* the inner graphs tried: no output depends on anything, every output on
\* everything, output dx on the inputs of its parity, and the first two
\* outputs on the last input alone
DepsTried(n_clean, n_diff) ==
    { {},
      (0..(n_clean - 1)) \X (0..(n_diff - 1)),
      {d \in (0..(n_clean - 1)) \X (0..(n_diff - 1)) : (d[1] + d[2]) % 2 = 0},
      {d \in (0..(n_clean - 1)) \X (0..(n_diff - 1)) : d[1] < 2 /\ d[2] = n_diff - 1} }

\* args of grad: the value of n_steps, then the other inputs of the forward node
GradArgs(op, n) == <<n>> \o [k \in 1..(NumArgs(op) - 1) |-> Var("arg", k)]

\* g_outs as grad receives it: no gradient comes in for the odd outputs
GradOuts(op) ==
    [k \in 1..NumOuts(op) |-> IF (k - 1) % 2 = 1 THEN None ELSE Var("g_out", k - 1)]

\* grad entered with the gradients g of the outputs
InitGradOn(op, n, g) ==
    /\ cfg = op
    /\ args = GradArgs(op, n)
    /\ g_outs = g
    /\ pc = "grad"
    /\ outs = << >>
    /\ n_steps = 0
    /\ seqs = << >>
    /\ store_steps = << >>
    /\ pos = << >>
    /\ i = 0
    /\ cond = TRUE
    /\ input_storage = << >>
    /\ output_storage = << >>
    /\ raised = NoError
    /\ calls = 0
    /\ seq_trace = << >>
    /\ cond_trace = << >>
    /\ inner_gfn_outs = << >>
    /\ scan_seqs = << >>
    /\ scan_mit_mot = << >>
    /\ scan_mit_mot_outs = << >>
    /\ mit_mot_taps = << >>
    /\ mit_mot_out_slices = << >>
    /\ info = << >>
    /\ scan_inputs = << >>
    /\ gradients = << >>

InitGradWith(op, n) == InitGradOn(op, n, GradOuts(op))

InitGrad ==
    \E n_s \in 0..MaxPlain, n_mm \in 0..MaxSingle, n_ms \in 0..MaxPlain,
       n_ss \in 0..MaxSingle, n_ns \in 0..MaxSingle, n_sh \in 0..MaxSingle,
       n_o \in 1..MaxPlain, trunc \in {-1, Truncate}, while \in BOOLEAN,
       n \in {-MaxSteps, 1, MaxSteps} :
        LET plain == ForwardOp(n_s, n_mm, n_ms, n_ss, n_ns, n_sh, n_o, trunc, while, {})
        IN  \E deps \in DepsTried(NumClean(plain), Len(diff_inputs(plain))) :
                InitGradWith([plain EXCEPT !.deps = deps], n)

----------------------------------------------------------------------------
(* grad, steps 5 to 9: the gradient of every inner input, summed over the outputs *)

\* step 5: the gradient of inner output dx with respect to every diff input,
\* None (no term) where there is no path
compute_gradient(op, dx) ==
    [p \in 1..Len(diff_inputs(op)) |->
        IF <<dx, p - 1>> \in op.deps THEN << <<"d", dx, p - 1>> >> ELSE << >>]

\* variant: the gradient of a later output replaces the sum so far
AddTerms_Replace(x, y) == IF x # << >> THEN x ELSE y

\* 7.4: x + y, or the one of them that is not None
AddTerms(x, y) ==
    IF x # << >> /\ y # << >> THEN x \o y
    ELSE IF y # << >> THEN y
    ELSE x

\* 7.3: what the sum starts from, the carried gradient except for the sequences
CarriedTerms(op) ==
    [p \in 1..Len(diff_inputs(op)) |->
        IF p - 1 >= op.n_seqs THEN << <<"g_prev", p - 1, 0>> >> ELSE << >>]

\* 7.3 and 7.4 over the outputs from dx on
RECURSIVE SumFrom(_, _, _)
SumFrom(op, acc, dx) ==
    IF dx >= NumClean(op) THEN acc
    ELSE LET grad_outs == compute_gradient(op, dx)
             start == IF acc = << >> THEN CarriedTerms(op) ELSE acc
         IN  SumFrom(op,
                     [p \in 1..Min2(Len(grad_outs), Len(start)) |->
                         AddTerms(grad_outs[p], start[p])],
                     dx + 1)

\* variant: a sum without terms stays None
MaskInputs_Keep(acc) == acc

\* step 8
MaskInputs(acc) ==
    [p \in 1..Len(acc) |-> IF acc[p] = << >> THEN << <<"zeros_like", p - 1, 0>> >> ELSE acc[p]]

\* step 9
MaskOuts(g) ==
    [k \in 1..Len(g) |-> IF g[k] = None THEN Var("zeros_like_scan_out", k - 1) ELSE g[k]]

SumGradients ==
    /\ pc = "grad"
    /\ inner_gfn_outs' = MaskInputs(SumFrom(cfg, << >>, 0))
    /\ g_outs' = MaskOuts(g_outs)
    /\ pc' = "grad_seqs"
    /\ UNCHANGED <<cfg, args, scan_seqs, scan_mit_mot, scan_mit_mot_outs, mit_mot_taps,
                   mit_mot_out_slices, info, scan_inputs, gradients>>
    /\ UNCHANGED execute_locals

----------------------------------------------------------------------------
(* grad, step 10: the sequences of the backward scan *)

\* the forward outputs, scan_outputs = self(*args)
scan_outputs(k) == Var("scan_out", k)

\* lines 1162-1174: the cut of the reversed output seq for tap k
TapCut(seq, k, mintap, maxtap) ==
    LET dim_offset == IF maxtap < 0 THEN Abs(maxtap) ELSE 0
    IN  IF maxtap = mintap /\ maxtap # 0 THEN Cut(seq, 0, Abs(maxtap))
        ELSE IF maxtap - k # 0 THEN Cut(seq, dim_offset + k - mintap, -(maxtap - k))
        ELSE Cut(seq, dim_offset + k - mintap, 0)

\* lines 1158-1177 for output idx (0-based)
TapSeqs(op, idx) ==
    LET taps == op.tap_array[idx + 1]
        seq == Rev(scan_outputs(0 + idx))
    IN  [t \in 1..Len(taps) |-> TapCut(seq, taps[t], SeqMin(taps), SeqMax(taps))]

\* lines 1179-1182
SitSotSeqs(op) ==
    [idx \in 1..op.n_sit_sot |-> Rev(Cut(scan_outputs(op.n_mit_sot + idx - 1), 0, -1))]

\* lines 1184-1188
NitSotSeqs(op, g) ==
    LET offset == op.n_mit_mot_outs + op.n_mit_sot + op.n_sit_sot
    IN  [k \in 1..Len(Slice(g, offset, offset + op.n_nit_sot)) |->
            Rev(Slice(g, offset, offset + op.n_nit_sot)[k])]

BuildSeqs ==
    /\ pc = "grad_seqs"
    /\ scan_seqs' =
          [s \in 1..cfg.n_seqs |-> Rev(args[s + 1])]
          \o Flatten([c \in 1..(cfg.n_mit_mot + cfg.n_mit_sot) |-> TapSeqs(cfg, c - 1)])
          \o SitSotSeqs(cfg)
          \o NitSotSeqs(cfg, g_outs)
    /\ pc' = "grad_mit_mot"
    /\ UNCHANGED <<cfg, args, g_outs, inner_gfn_outs, scan_mit_mot, scan_mit_mot_outs,
                   mit_mot_taps, mit_mot_out_slices, info, scan_inputs, gradients>>
    /\ UNCHANGED execute_locals

----------------------------------------------------------------------------
(* grad, lines 1190-1254: the MIT-MOT outputs of the backward scan *)

Negated(s) == [k \in 1..Len(s) |-> -s[k]]

\* the lists lines 1190-1199 start from
NoMitMot(op) ==
    [taps |-> << >>, slices |-> << >>, scan_mit_mot |-> << >>, outs |-> << >>,
     ins |-> << >>, ins_pos |-> op.n_seqs, out_pos |-> 0]

\* lines 1200-1220, from forward MIT-MOT output idx (0-based) on
RECURSIVE FromMitMot(_, _, _, _, _)
FromMitMot(op, g, gfn, st, idx) ==
    IF idx >= op.n_mit_mot THEN st
    ELSE LET taps == op.tap_array[idx + 1]
             out_slices == op.mit_mot_out_slices[idx + 1]
         IN  FromMitMot(op, g, gfn,
                [taps |-> Append(st.taps, Negated(out_slices) \o Negated(taps)),
                 slices |-> Append(st.slices, Negated(taps)),
                 scan_mit_mot |-> Append(st.scan_mit_mot, Rev(g[idx + 1])),
                 outs |-> st.outs \o [j \in 1..Len(taps) |-> gfn[st.ins_pos + j]],
                 ins |-> st.ins
                         \o [j \in 1..Len(out_slices) |-> <<"g", st.out_pos + j - 1, 0>>]
                         \o [j \in 1..Len(taps) |-> <<"g_prev", st.ins_pos + j - 1, 0>>],
                 ins_pos |-> st.ins_pos + Len(taps),
                 out_pos |-> st.out_pos + Len(out_slices)],
                idx + 1)

\* lines 1222-1241, from forward MIT-SOT output idx (0-based) on; the out
\* slices are appended to entry idx, the taps to entry idx + offset
RECURSIVE FromMitSot(_, _, _, _, _)
FromMitSot(op, g, gfn, st, idx) ==
    IF idx >= op.n_mit_sot THEN st
    ELSE LET offset == op.n_mit_mot
             taps == op.tap_array[idx + op.n_mit_mot + 1]
         IN  FromMitSot(op, g, gfn,
                [taps |-> Append(st.taps, Negated(taps) \o <<0>>),
                 slices |-> [Append(st.slices, << >>) EXCEPT ![idx + 1] = @ \o Negated(taps)],
                 scan_mit_mot |-> Append(st.scan_mit_mot, Rev(g[idx + offset + 1])),
                 outs |-> st.outs \o [j \in 1..Len(taps) |-> gfn[st.ins_pos + j]],
                 ins |-> st.ins
                         \o [j \in 1..Len(taps) |-> <<"g_prev", st.ins_pos + j - 1, 0>>]
                         \o << <<"g", st.out_pos, 0>> >>,
                 ins_pos |-> st.ins_pos + Len(taps),
                 out_pos |-> st.out_pos + 1],
                idx + 1)

\* lines 1243-1254, from forward SIT-SOT output idx (0-based) on
RECURSIVE FromSitSot(_, _, _, _, _)
FromSitSot(op, g, gfn, st, idx) ==
    IF idx >= op.n_sit_sot THEN st
    ELSE LET offset == op.n_mit_mot + op.n_mit_sot
         IN  FromSitSot(op, g, gfn,
                [taps |-> Append(st.taps, <<0, 1>>),
                 slices |-> Append(st.slices, <<1>>),
                 scan_mit_mot |-> Append(st.scan_mit_mot, Rev(g[idx + offset + 1])),
                 outs |-> Append(st.outs, gfn[st.ins_pos + 1]),
                 ins |-> st.ins \o << <<"g", st.out_pos, 0>>, <<"g_prev", st.ins_pos, 0>> >>,
                 ins_pos |-> st.ins_pos + 1,
                 out_pos |-> st.out_pos + 1],
                idx + 1)

\* lines 1190-1254
MitMotOf(op, g, gfn) ==
    FromSitSot(op, g, gfn,
               FromMitSot(op, g, gfn, FromMitMot(op, g, gfn, NoMitMot(op), 0), 0), 0)

BuildMitMot ==
    /\ pc = "grad_mit_mot"
    /\ LET r == MitMotOf(cfg, g_outs, inner_gfn_outs)
       IN  /\ mit_mot_taps' = r.taps
           /\ mit_mot_out_slices' = r.slices
           /\ scan_mit_mot' = r.scan_mit_mot
           /\ scan_mit_mot_outs' = r.outs
    /\ pc' = "grad_info"
    /\ UNCHANGED <<cfg, args, g_outs, inner_gfn_outs, scan_seqs, info, scan_inputs,
                   gradients>>
    /\ UNCHANGED execute_locals

----------------------------------------------------------------------------
(* grad, lines 1257-1297: the info of the backward op and its number of steps *)

\* the offset of lines 1260-1263: the diff inputs that are not non-sequences
NonSeqOffset(op) == op.n_seqs + n_ins_mit_sot(op) + n_ins_mit_mot(op) + op.n_sit_sot

\* variant: the forward shared outputs are not counted
BackwardShared_Own(op) ==
    Len(Slice(diff_inputs(op), NonSeqOffset(op), Len(diff_inputs(op))))

\* line 1282: info['n_shared_outs']
BackwardShared(op) ==
    Len(Slice(diff_inputs(op), NonSeqOffset(op), Len(diff_inputs(op)))) + op.n_shared_outs

\* lines 1269-1291
InfoOf(op, taps, slices, n_mit_mot_outs) ==
    [n_seqs |-> op.n_seqs + n_ins_mit_mot(op) + n_ins_mit_sot(op) + op.n_sit_sot
                + op.n_nit_sot,
     n_mit_sot |-> 0,
     tap_array |-> taps,
     n_mit_mot |-> op.n_mit_mot + op.n_mit_sot + op.n_sit_sot,
     n_mit_mot_outs |-> n_mit_mot_outs,
     mit_mot_out_slices |-> slices,
     truncate_gradient |-> op.truncate_gradient,
     n_sit_sot |-> 0,
     n_shared_outs |-> BackwardShared(op),
     n_nit_sot |-> op.n_seqs,
     as_while |-> op.as_while,
     inplace |-> FALSE]

\* variant: the limit is the number of steps whenever one is set
do_steps_Limit(op, n) == IF op.truncate_gradient # -1 THEN op.truncate_gradient ELSE n

\* lines 1294-1297, n the value of args[0]
do_steps(op, n) == IF op.truncate_gradient # -1 THEN Min2(n, op.truncate_gradient) ELSE n

BuildInfo ==
    /\ pc = "grad_info"
    /\ info' = InfoOf(cfg, mit_mot_taps, mit_mot_out_slices, Len(scan_mit_mot_outs))
    /\ pc' = "grad_apply"
    /\ UNCHANGED <<cfg, args, g_outs, inner_gfn_outs, scan_seqs, scan_mit_mot,
                   scan_mit_mot_outs, mit_mot_taps, mit_mot_out_slices, scan_inputs,
                   gradients>>
    /\ UNCHANGED execute_locals

----------------------------------------------------------------------------
(* make_node, lines 150-264: the checks made when the op is applied *)

\* the comparisons make_node makes, in the order it makes them, as triples
\* <<kind, index, slot>>, all 0-based: the argument inputs[index] against
\* self.inputs[slot] ("seq", "tap") or self.outputs[slot] ("out", "shared");
\* "no_taps" and "no_slices" stand for the lookup of an entry that tap_array
\* or mit_mot_out_slices does not have, after which nothing is compared

\* lines 181-188
SeqChecks(op) == [idx \in 1..op.n_seqs |-> <<"seq", idx, idx - 1>>]

\* variant: the output slot is not advanced over the out slices of a MIT-MOT
RECURSIVE ChannelChecks_OneSlot(_, _, _, _)
ChannelChecks_OneSlot(op, c, index_i, index_o) ==
    IF c >= op.n_mit_mot + op.n_mit_sot + op.n_sit_sot THEN << >>
    ELSE IF c >= Len(op.tap_array) THEN << <<"no_taps", c, 0>> >>
    ELSE LET index == 1 + op.n_seqs + c
             taps == op.tap_array[c + 1]
             reads == [k \in 1..Len(taps) |-> <<"tap", index, index_i + k - 1>>]
         IN  reads \o << <<"out", index, index_o>> >>
             \o ChannelChecks_OneSlot(op, c + 1, index_i + Len(taps), index_o + 1)

\* lines 195-237, from tap output c (0-based) on, index_i and index_o the
\* next inner input and the next inner output
RECURSIVE ChannelChecks(_, _, _, _)
ChannelChecks(op, c, index_i, index_o) ==
    IF c >= op.n_mit_mot + op.n_mit_sot + op.n_sit_sot THEN << >>
    ELSE IF c >= Len(op.tap_array) THEN << <<"no_taps", c, 0>> >>
    ELSE LET index == 1 + op.n_seqs + c
             taps == op.tap_array[c + 1]
             reads == [k \in 1..Len(taps) |-> <<"tap", index, index_i + k - 1>>]
         IN  IF c < op.n_mit_mot
             THEN IF c >= Len(op.mit_mot_out_slices)
                  THEN reads \o << <<"no_slices", c, 0>> >>
                  ELSE reads
                       \o [k \in 1..Len(op.mit_mot_out_slices[c + 1]) |->
                              <<"out", index, index_o + k - 1>>]
                       \o ChannelChecks(op, c + 1, index_i + Len(taps),
                                        index_o + Len(op.mit_mot_out_slices[c + 1]))
             ELSE reads \o << <<"out", index, index_o>> >>
                  \o ChannelChecks(op, c + 1, index_i + Len(taps), index_o + 1)

\* index_o when the loops of lines 200-237 are over
OutIndexAfter(op) ==
    SumLen(Slice(op.mit_mot_out_slices, 0, op.n_mit_mot)) + op.n_mit_sot + op.n_sit_sot

\* lines 241-251
SharedChecks(op) ==
    [k \in 1..op.n_shared_outs |->
        <<"shared",
          1 + op.n_seqs + op.n_mit_mot + op.n_mit_sot + op.n_sit_sot + k - 1,
          OutIndexAfter(op) + op.n_nit_sot + k - 1>>]

\* lines 252-259: the NIT-SOT arguments that are there
NitSotChecks(op, inputs) ==
    LET index == 1 + op.n_seqs + op.n_mit_mot + op.n_mit_sot + op.n_sit_sot
                 + op.n_shared_outs
    IN  [k \in 1..Len(Slice(inputs, index, index + op.n_nit_sot)) |->
            <<"nit", index + k - 1, 0>>]

MakeNodeChecks(op, inputs) ==
    SeqChecks(op) \o ChannelChecks(op, 0, op.n_seqs, 0) \o SharedChecks(op)
    \o NitSotChecks(op, inputs)

IntDtypes == {"int64", "uint8"}

\* what one comparison does: nothing, or the exception it raises; an argument
\* that is no tensor (dtype "none") has no dtype attribute
CheckOutcome(op, inputs, chk) ==
    CASE chk[1] \in {"no_taps", "no_slices"} -> "IndexError"
      [] chk[1] \in {"seq", "tap"} ->
            IF chk[2] >= Len(inputs) \/ chk[3] >= Len(op.inputs) THEN "IndexError"
            ELSE IF inputs[chk[2] + 1].dtype # op.inputs[chk[3] + 1] THEN "ValueError"
            ELSE "ok"
      [] chk[1] = "out" ->
            IF chk[2] >= Len(inputs) \/ chk[3] >= Len(op.outputs) THEN "IndexError"
            ELSE IF inputs[chk[2] + 1].dtype # op.outputs[chk[3] + 1] THEN "ValueError"
            ELSE "ok"
      [] chk[1] = "shared" ->
            IF chk[2] >= Len(inputs) THEN "IndexError"
            ELSE IF inputs[chk[2] + 1].dtype = "none" THEN "ok"
            ELSE IF chk[3] >= Len(op.outputs) THEN "IndexError"
            ELSE IF inputs[chk[2] + 1].dtype # op.outputs[chk[3] + 1] THEN "ValueError"
            ELSE "ok"
      [] chk[1] = "nit" ->
            IF inputs[chk[2] + 1].dtype \notin IntDtypes \/ inputs[chk[2] + 1].ndim # 0
            THEN "ValueError" ELSE "ok"

\* the first comparison that raises
RECURSIVE FirstFailure(_, _, _)
FirstFailure(op, inputs, checks) ==
    IF checks = << >> THEN "ok"
    ELSE IF CheckOutcome(op, inputs, Head(checks)) # "ok"
    THEN CheckOutcome(op, inputs, Head(checks))
    ELSE FirstFailure(op, inputs, Tail(checks))

\* make_node: "ok" when the Apply node is built, or the exception raised; op
\* carries the dtypes of its inner inputs and outputs, inputs the arguments
make_node(op, inputs) == FirstFailure(op, inputs, MakeNodeChecks(op, inputs))

----------------------------------------------------------------------------
(* grad, lines 1299-1352: apply the backward op and order its outputs *)

\* Scan.__init__, lines 63-95: what each output of an op built from inner
\* outputs stacks: <<"mit_mot", jdx, idx>> for MIT-MOT output jdx whose type is
\* read off inner output idx, <<"stack", 0, idx>> for the next n_sot inner
\* outputs, <<"last", 0, idx>> for the others
RECURSIVE MitMotTypes(_, _, _, _)
MitMotTypes(slices, total, idx, jdx) ==
    IF idx >= total \/ jdx >= Len(slices) THEN << >>
    ELSE << <<"mit_mot", jdx, idx>> >>
         \o MitMotTypes(slices, total, idx + Len(slices[jdx + 1]), jdx + 1)

OutputTypes(inf, n_inner) ==
    LET mm == MitMotTypes(inf.mit_mot_out_slices, inf.n_mit_mot_outs, 0, 0)
        idx == IF mm = << >> THEN 0
               ELSE mm[Len(mm)][3] + Len(inf.mit_mot_out_slices[Len(mm)])
        end == idx + inf.n_mit_sot + inf.n_sit_sot + inf.n_nit_sot
        all == mm
               \o [k \in 1..Max2(Min2(end, n_inner) - idx, 0) |-> <<"stack", 0, idx + k - 1>>]
               \o [k \in 1..Max2(n_inner - end, 0) |-> <<"last", 0, end + k - 1>>]
    IN  IF inf.as_while THEN Slice(all, 0, Len(all) - 1) ELSE all

\* lines 1020-1025: the shared inner outputs of the forward op, and its condition
old_scan_shared_outs(op) ==
    [k \in 1..(op.n_shared_outs + (IF op.as_while THEN 1 ELSE 0)) |->
        << <<"out", NumClean(op) + k - 1, 0>> >>]

\* lines 1327-1330
BackwardOuts(op, mm_outs, gfn) ==
    mm_outs
    \o Slice(gfn, 0, op.n_seqs)
    \o Slice(gfn, NonSeqOffset(op), Len(gfn))
    \o old_scan_shared_outs(op)

\* lines 1149-1153 and 1321-1326: the inner inputs of the backward op.
\* <<"in", k, 0>> is forward inner input k, <<"g", dx, 0>> the incoming
\* gradient of forward inner output dx (inner_g_outs), <<"g_prev", p, 0>> the
\* gradient of diff input p carried from the previous backward step
inner_gfn_ins(op, inner_mit_mot) ==
    LET offset == op.n_mit_mot_outs + op.n_mit_sot + op.n_sit_sot
        n_diff == Len(diff_inputs(op))
    IN  Slice(self_inputs(op), 0, NonSeqOffset(op))
        \o [k \in 1..op.n_nit_sot |-> <<"g", offset + k - 1, 0>>]
        \o inner_mit_mot
        \o [k \in 1..(n_diff - NonSeqOffset(op)) |-> <<"g_prev", NonSeqOffset(op) + k - 1, 0>>]
        \o Slice(self_inputs(op), NonSeqOffset(op), NonSeqOffset(op) + op.n_shared_outs)
        \o other_args(op)

\* lines 1266 and 1079-1082: zeros like the non-sequence arguments
scan_shared_init(op, a) ==
    [j \in 1..Len(other_args(op)) |->
        Var("zeros_like_arg", Len(a) - Len(other_args(op)) + j - 1)]

\* lines 1026-1031
old_scan_init(op, a) ==
    Slice(a, 1 + op.n_seqs + op.n_mit_mot + op.n_mit_sot + op.n_sit_sot,
          1 + op.n_seqs + op.n_mit_mot + op.n_mit_sot + op.n_sit_sot + op.n_shared_outs)

\* variant: the accumulators of the sequence gradients are sized by do_steps
ScanInputs_ShortAccumulators(op, a, seqs_, mit_mot) ==
    <<do_steps(op, a[1])>>
    \o seqs_
    \o mit_mot
    \o scan_shared_init(op, a)
    \o old_scan_init(op, a)
    \o [k \in 1..op.n_seqs |-> do_steps(op, a[1])]
    \o Slice(a, 1 + op.n_seqs + op.n_mit_mot + op.n_mit_sot + op.n_sit_sot
                + op.n_nit_sot + op.n_shared_outs, Len(a))

\* lines 1299-1313
ScanInputs(op, a, seqs_, mit_mot) ==
    <<do_steps(op, a[1])>>
    \o seqs_
    \o mit_mot
    \o scan_shared_init(op, a)
    \o old_scan_init(op, a)
    \o [k \in 1..op.n_seqs |-> a[1]]
    \o Slice(a, 1 + op.n_seqs + op.n_mit_mot + op.n_mit_sot + op.n_sit_sot
                + op.n_nit_sot + op.n_shared_outs, Len(a))

Reversed(xs) == [k \in 1..Len(xs) |-> Rev(xs[k])]

\* variant: the gradients of the initial states come before those of the sequences
Gradients_StatesFirst(op, outputs) ==
    LET end == op.n_mit_mot + op.n_mit_sot + op.n_sit_sot
    IN  <<None>>
        \o Reversed(Slice(outputs, 0, end))
        \o Reversed(Slice(outputs, end, end + op.n_seqs))
        \o [k \in 1..op.n_shared_outs |-> None]
        \o [k \in 1..op.n_nit_sot |-> None]
        \o Slice(outputs, end + op.n_seqs, end + op.n_seqs + BackwardShared_Own(op))

\* lines 1337-1352
Gradients(op, outputs) ==
    LET end == op.n_mit_mot + op.n_mit_sot + op.n_sit_sot
    IN  <<None>>
        \o Reversed(Slice(outputs, end, end + op.n_seqs))
        \o Reversed(Slice(outputs, 0, end))
        \o [k \in 1..op.n_shared_outs |-> None]
        \o [k \in 1..op.n_nit_sot |-> None]
        \o Slice(outputs, end + op.n_seqs, end + op.n_seqs + BackwardShared_Own(op))

\* the outputs of the node local_op(*scan_inputs)
BackwardOutputs(inf, n_inner) ==
    [k \in 1..Len(OutputTypes(inf, n_inner)) |-> Var("outputs", k - 1)]

\* the layout of the backward op: its info and the non-sequences it is given
BackwardLayout(inf, n_other) ==
    [n_seqs |-> inf.n_seqs, n_mit_mot |-> inf.n_mit_mot, n_mit_sot |-> inf.n_mit_sot,
     n_sit_sot |-> inf.n_sit_sot, n_nit_sot |-> inf.n_nit_sot,
     n_shared_outs |-> inf.n_shared_outs, n_mit_mot_outs |-> inf.n_mit_mot_outs,
     n_other |-> n_other, tap_array |-> inf.tap_array,
     mit_mot_out_slices |-> inf.mit_mot_out_slices]

\* Scan.__init__, lines 71-81, run on the backward op: the loop over the
\* MIT-MOT output types reads an inner output, or an entry of
\* mit_mot_out_slices, that is not there
RECURSIVE InitRaises(_, _, _, _, _)
InitRaises(slices, total, idx, jdx, n_inner) ==
    IF idx >= total THEN FALSE
    ELSE IF idx >= n_inner \/ jdx >= Len(slices) THEN TRUE
    ELSE InitRaises(slices, total, idx + Len(slices[jdx + 1]), jdx + 1, n_inner)

\* the arguments of the backward op as make_node sees them: the numbers of
\* steps are integer scalars, everything else a tensor of the one dtype that
\* the inner inputs, the inner outputs and their gradients have
TypedInputs(inf, inputs) ==
    LET nit == 1 + inf.n_seqs + inf.n_mit_mot + inf.n_shared_outs
    IN  [k \in 1..Len(inputs) |->
            IF k = 1 \/ (k > nit /\ k <= nit + inf.n_nit_sot)
            THEN [dtype |-> "int64", ndim |-> 0]
            ELSE [dtype |-> "float32", ndim |-> 1]]

\* lines 1332-1333: Scan(inner_gfn_ins, inner_gfn_outs, info) and its
\* make_node on scan_inputs: "ok", or the exception that leaves grad
BackwardNode(op, inf, n_inner, inputs) ==
    IF InitRaises(inf.mit_mot_out_slices, inf.n_mit_mot_outs, 0, 0, n_inner)
    THEN "IndexError"
    ELSE LET lay == BackwardLayout(inf, op.n_other)
         IN  make_node(lay @@ [inputs |-> [k \in 1..NumInputSlots(lay) |-> "float32"],
                               outputs |-> [k \in 1..n_inner |-> "float32"]],
                       TypedInputs(inf, inputs))

ApplyBackward ==
    /\ pc = "grad_apply"
    /\ scan_inputs' = ScanInputs(cfg, args, scan_seqs, scan_mit_mot)
    /\ inner_gfn_outs' = BackwardOuts(cfg, scan_mit_mot_outs, inner_gfn_outs)
    /\ LET built == BackwardNode(cfg, info, Len(inner_gfn_outs'), scan_inputs')
       IN  IF built = "ok"
           THEN /\ gradients' =
                      Gradients(cfg, BackwardOutputs(info, Len(inner_gfn_outs')))
                /\ pc' = "grad_done"
                /\ UNCHANGED raised
           ELSE /\ raised' = [exc |-> built, tags |-> {}]
                /\ pc' = "grad_error"
                /\ UNCHANGED gradients
    /\ UNCHANGED <<cfg, args, g_outs, scan_seqs, scan_mit_mot, scan_mit_mot_outs,
                   mit_mot_taps, mit_mot_out_slices, info>>
    /\ UNCHANGED <<outs, n_steps, seqs, store_steps, pos, i, cond, input_storage,
                   output_storage, calls, seq_trace, cond_trace>>

NextGrad == SumGradients \/ BuildSeqs \/ BuildMitMot \/ BuildInfo \/ ApplyBackward

SpecGrad == InitGrad /\ [][NextGrad]_vars

----------------------------------------------------------------------------
(* Vocabulary of the properties of grad *)

\* grad has built the info of the backward op
InfoBuilt == pc \in {"grad_apply", "grad_done"}

\* the values of a list, as a set
Values(xs) == {xs[k] : k \in 1..Len(xs)}

(* C15: the backward info turns every forward MIT-MOT, MIT-SOT and SIT-SOT   *)
(* output into one backward MIT-MOT output: n_mit_mot' = n_mit_mot +         *)
(* n_mit_sot + n_sit_sot, n_mit_sot' = 0, n_sit_sot' = 0, n_nit_sot' =       *)
(* n_seqs, n_shared_outs' = number of non-sequence inputs + n_shared_outs.   *)
C15_BackwardCounts ==
    InfoBuilt =>
        /\ info.n_mit_mot = cfg.n_mit_mot + cfg.n_mit_sot + cfg.n_sit_sot
        /\ info.n_mit_sot = 0
        /\ info.n_sit_sot = 0
        /\ info.n_nit_sot = cfg.n_seqs
        /\ info.n_shared_outs = cfg.n_other + cfg.n_shared_outs
        /\ Len(info.tap_array) = info.n_mit_mot
        /\ Len(info.mit_mot_out_slices) = info.n_mit_mot

\* the info built for a forward op that has every kind of input and output
C15_Witness ==
    /\ InfoBuilt
    /\ cfg.n_seqs = MaxPlain /\ cfg.n_other = MaxPlain
    /\ cfg.n_mit_mot = 1 /\ cfg.n_mit_sot = MaxPlain /\ cfg.n_sit_sot = 1
    /\ cfg.n_nit_sot = 1 /\ cfg.n_shared_outs = 1
    /\ info.n_mit_mot = MaxPlain + 2
    /\ info.n_shared_outs = MaxPlain + 1

(* C16: for every forward MIT-MOT and MIT-SOT output c and every tap k of c, *)
(* the entry of the backward mit_mot_out_slices for the backward MIT-MOT     *)
(* output that corresponds to c contains -k, and nothing that belongs to     *)
(* another output, whatever the numbers of forward MIT-MOT and MIT-SOT       *)
(* outputs.                                                                  *)
C16_OutSlicesPerChannel ==
    InfoBuilt =>
        \A c \in 1..(cfg.n_mit_mot + cfg.n_mit_sot) :
            Values(info.mit_mot_out_slices[c]) = {-k : k \in Values(cfg.tap_array[c])}

\* C16 where the code meets it: the forward op has no MIT-MOT output, or no
\* MIT-SOT output
C16_OutSlicesOneKind ==
    (InfoBuilt /\ (cfg.n_mit_mot = 0 \/ cfg.n_mit_sot = 0)) =>
        \A c \in 1..(cfg.n_mit_mot + cfg.n_mit_sot) :
            info.mit_mot_out_slices[c] = Negated(cfg.tap_array[c])

\* a forward op with one MIT-MOT and one MIT-SOT output: the out slices of the
\* MIT-SOT output are in the entry of the MIT-MOT output, its own entry is empty
C16_Witness ==
    /\ InfoBuilt
    /\ cfg.n_mit_mot = 1 /\ cfg.n_mit_sot = 1
    /\ info.mit_mot_out_slices[1] = <<0, -1, 2, 1>>
    /\ info.mit_mot_out_slices[2] = << >>

(* C17: the number of steps passed to the backward op is min(n_steps,        *)
(* truncate_gradient) when truncate_gradient is not -1, n_steps otherwise;   *)
(* the backward info carries the truncate_gradient of the forward op.        *)
C17_BackwardSteps ==
    pc = "grad_done" =>
        /\ scan_inputs[1] =
              IF cfg.truncate_gradient = -1 THEN args[1]
              ELSE IF args[1] <= cfg.truncate_gradient THEN args[1]
              ELSE cfg.truncate_gradient
        /\ info.truncate_gradient = cfg.truncate_gradient

\* a limit below the number of steps
C17_Witness ==
    /\ pc = "grad_done"
    /\ cfg.truncate_gradient = Truncate
    /\ args[1] = MaxSteps
    /\ scan_inputs[1] = Truncate

----------------------------------------------------------------------------
(* The backward op of grad, run by execute *)

\* the number of steps of the forward loops whose backward op is run
MaxForward == 4

\* the NIT-SOT length arguments among the inputs of the backward op
NitSotLengths(inf, inputs) ==
    Slice(inputs, 1 + inf.n_seqs + inf.n_mit_mot + inf.n_shared_outs,
          1 + inf.n_seqs + inf.n_mit_mot + inf.n_shared_outs + inf.n_nit_sot)

\* the length of output c (1-based) of the forward op after n steps into
\* buffers with no entry to spare
ForwardLength(op, c, n) == StoreFor(op, c, [k \in 1..Len(op.tap_array) |-> n])

\* the further entries of the buffers the backward op is given: the gradient
\* of a forward output has the length of that output, an accumulator has the
\* length its argument asks for
BackwardRooms(op, inf, inputs, n) ==
    [c \in 1..(inf.n_mit_mot + inf.n_nit_sot) |->
        IF c <= inf.n_mit_mot
        THEN ForwardLength(op, c, n) - StoreFor(BackwardLayout(inf, op.n_other), c,
                                                [k \in 1..inf.n_mit_mot |-> 0])
        ELSE NitSotLengths(inf, inputs)[c - inf.n_mit_mot] - 1]

\* line 1333, outputs = local_op(*scan_inputs), when the graph is evaluated:
\* execute of the backward op on do_steps, sequences of the n entries of the
\* forward loop, and the accumulators
RunBackward ==
    /\ pc = "grad_done"
    /\ \E mode \in StorageModes, flipped \in BOOLEAN :
          LET lay == BackwardLayout(info, cfg.n_other)
              n == args[1]
              rooms == BackwardRooms(cfg, info, scan_inputs, n)
              lens == [s \in 1..lay.n_seqs |-> n]
          IN  /\ cfg' = lay @@ [as_while |-> info.as_while,
                                inplace |-> (mode = "inplace"),
                                until |-> "free", storage |-> mode, rooms |-> rooms,
                                forward |-> cfg]
              /\ args' = MakeArgs(lay, scan_inputs[1], lens, flipped, rooms)
              /\ outs' = MakeOuts(lay, mode, rooms)
              /\ input_storage' = [k \in 1..NumInputSlots(lay) |-> NoValue]
              /\ output_storage' =
                    [k \in 1..NumOutputSlots(lay, info.as_while) |-> NoValue]
    /\ pc' = "start"
    /\ n_steps' = 0
    /\ seqs' = << >>
    /\ store_steps' = << >>
    /\ pos' = << >>
    /\ i' = 0
    /\ cond' = TRUE
    /\ raised' = NoError
    /\ calls' = 0
    /\ seq_trace' = << >>
    /\ cond_trace' = << >>
    /\ UNCHANGED grad_locals

\* grad of a for-loop of 1..MaxForward steps with sequences, MIT-SOT, SIT-SOT
\* and NIT-SOT outputs, every output depending on every input
InitTrunc ==
    \E n_s \in 1..MaxPlain, n_ms \in 0..MaxSingle, n_ss \in 0..MaxSingle,
       n_ns \in 0..MaxSingle, trunc \in {-1, Truncate}, n \in 1..MaxForward :
        LET plain == ForwardOp(n_s, 0, n_ms, n_ss, n_ns, 0, 1, trunc, FALSE, {})
        IN  /\ NumClean(plain) >= 1
            /\ InitGradWith([plain EXCEPT !.deps =
                                (0..(NumClean(plain) - 1))
                                \X (0..(Len(diff_inputs(plain)) - 1))], n)

NextTrunc ==
    \/ SumGradients \/ BuildSeqs \/ BuildMitMot \/ BuildInfo \/ ApplyBackward
    \/ RunBackward
    \/ Start \/ Allocate \/ Gather \/ Call \/ Scatter \/ Finish

SpecTrunc == InitTrunc /\ [][NextTrunc]_vars

----------------------------------------------------------------------------
(* Vocabulary of the properties of the backward run *)

\* the value of an expression over the outputs of the backward op, once
\* execute has returned them
RECURSIVE ApplyOps(_, _)
ApplyOps(data, ops) ==
    IF ops = << >> THEN data
    ELSE ApplyOps(IF Head(ops)[1] = "rev" THEN Reverse(data) ELSE data, Tail(ops))

ValueOf(x) == ApplyOps(outs[x.k + 1].data, x.ops)

\* the number of steps of the forward loop: the entries of its first
\* sequence, which the backward op reads reversed
ForwardSteps == Len(args[2])

\* the backward op has returned
BackwardDone == pc = "done" /\ scan_inputs # << >>

(* C18: with truncate_gradient = T < n_steps = n, in for-mode, the gradient  *)
(* returned for each plain sequence has n entries; the entries of forward    *)
(* steps 0..n-T-1 are zero and the entry of each of the last T forward       *)
(* steps t is what backward step n-1-t produced. Without a limit, or with    *)
(* T >= n, every entry is what a backward step produced.                     *)
C18_TruncatedZeros ==
    (BackwardDone /\ ~cfg.as_while) =>
        \A s \in 1..cfg.n_nit_sot :
            LET x == gradients[1 + s]
                g == ValueOf(x)
                n == ForwardSteps
                T == scan_inputs[1]
            IN  /\ x.base = "outputs"
                /\ x.k = cfg.n_mit_mot + s - 1
                /\ Len(g) = n
                /\ \A t \in 0..(n - 1) :
                      g[t + 1] = IF t < n - T THEN Zero ELSE <<"step", x.k, n - 1 - t>>

\* MaxForward forward steps, Truncate backward steps, the accumulator a
\* buffer of the caller that held other values: zeros first, then the steps
C18_Witness ==
    /\ BackwardDone
    /\ ~cfg.as_while
    /\ cfg.storage = "exact"
    /\ cfg.n_nit_sot = MaxPlain
    /\ scan_inputs[1] = Truncate
    /\ ForwardSteps = MaxForward
    /\ ValueOf(gradients[2])[1] = Zero
    /\ ValueOf(gradients[2])[MaxForward - Truncate] = Zero
    /\ ValueOf(gradients[2])[MaxForward] = <<"step", cfg.n_mit_mot, 0>>

----------------------------------------------------------------------------
(* Vocabulary of the order of the gradients *)

\* the outputs the node of the backward op has
BackwardTypes == OutputTypes(info, Len(inner_gfn_outs))

\* the forward outputs that have an initial state
TapOutputs == cfg.n_mit_mot + cfg.n_mit_sot + cfg.n_sit_sot

\* the first inner output of the backward op that holds a gradient of a tap
\* of forward output j (1-based)
FirstTapGradient(j) == SumLen(Take(cfg.tap_array, j - 1))

\* the list has one entry per argument; entry 0 and the slots of the shared
\* states and of the NIT-SOT lengths are None
OnePerArgument ==
    /\ Len(gradients) = NumArgs(cfg)
    /\ Len(BackwardTypes) = TapOutputs + cfg.n_seqs + cfg.n_other + cfg.n_shared_outs
    /\ gradients[1] = None
    /\ \A k \in 1..(cfg.n_shared_outs + cfg.n_nit_sot) :
          gradients[1 + cfg.n_seqs + TapOutputs + k] = None

\* every sequence, initial state and non-sequence slot holds the output of
\* the backward op that stacks, or ends as, the inner gradient of that input
SlotsMatchInputs ==
    /\ \A s \in 1..cfg.n_seqs :
          /\ gradients[1 + s] = Rev(Var("outputs", TapOutputs + s - 1))
          /\ BackwardTypes[TapOutputs + s]
                = <<"stack", 0, Len(scan_mit_mot_outs) + s - 1>>
    /\ \A j \in 1..TapOutputs :
          /\ gradients[1 + cfg.n_seqs + j] = Rev(Var("outputs", j - 1))
          /\ BackwardTypes[j] = <<"mit_mot", j - 1, FirstTapGradient(j)>>
    /\ \A k \in 1..cfg.n_other :
          /\ gradients[1 + cfg.n_seqs + TapOutputs + cfg.n_shared_outs
                        + cfg.n_nit_sot + k]
                = Var("outputs", TapOutputs + cfg.n_seqs + k - 1)
          /\ BackwardTypes[TapOutputs + cfg.n_seqs + k]
                = <<"last", 0, Len(scan_mit_mot_outs) + cfg.n_seqs + k - 1>>

(* C19: grad returns one entry per forward argument, in the order n_steps,   *)
(* sequences, MIT-MOT/MIT-SOT/SIT-SOT initial states, shared states, NIT-SOT *)
(* lengths, non-sequences: entry 0, the shared and the NIT-SOT slots are     *)
(* None, every other slot holds the output of the backward op computed for   *)
(* that input, those of sequences and initial states reversed.               *)
C19_GradientOrder ==
    pc = "grad_done" => (OnePerArgument /\ SlotsMatchInputs)

\* C19 where the code meets it: the forward op has an output that is not a
\* shared state, and it has no MIT-MOT output, or no MIT-SOT output
C19_GradientOrderOneKind ==
    (pc = "grad_done" /\ NumClean(cfg) >= 1
        /\ (cfg.n_mit_mot = 0 \/ cfg.n_mit_sot = 0))
        => (OnePerArgument /\ SlotsMatchInputs)

\* a forward op with one MIT-MOT and one MIT-SOT output and two non-sequences:
\* the node of the backward op has one output less, and grad returns a list
\* that has no entry for the last non-sequence
C19_Witness ==
    /\ pc = "grad_done"
    /\ cfg.n_mit_mot = 1 /\ cfg.n_mit_sot = 1 /\ cfg.n_other = MaxPlain
    /\ Len(BackwardTypes) = NumOuts(info) - 1
    /\ Len(gradients) = NumArgs(cfg) - 1

----------------------------------------------------------------------------
(* Vocabulary of the gradient sums *)

\* the gradients are summed, the backward outputs not yet ordered
Summed == pc \in {"grad_seqs", "grad_mit_mot", "grad_info", "grad_apply"}

\* where the sum of diff input p (1-based) stands among the inner outputs of
\* the backward op: the taps first, then the sequences, then the non-sequences
BackwardOutputFor(p) ==
    IF p <= cfg.n_seqs THEN Len(scan_mit_mot_outs) + p
    ELSE IF p <= NonSeqOffset(cfg) THEN p - cfg.n_seqs
    ELSE Len(scan_mit_mot_outs) + cfg.n_seqs + (p - NonSeqOffset(cfg))

\* the output of the backward inner graph for diff input p (1-based)
SumFor(p) ==
    IF pc = "grad_done" THEN inner_gfn_outs[BackwardOutputFor(p)] ELSE inner_gfn_outs[p]

\* the terms the sum of diff input p (1-based) is made of: the local gradient
\* of every non-shared inner output that has a path to it and, except for a
\* sequence, the gradient carried from the previous backward step
PathsTo(p) ==
    {<<"d", dx, p - 1>> : dx \in {d \in 0..(NumClean(cfg) - 1) : <<d, p - 1>> \in cfg.deps}}
    \cup (IF p - 1 >= cfg.n_seqs THEN {<<"g_prev", p - 1, 0>>} ELSE {})

(* C20: in the backward inner graph the output for each differentiable inner *)
(* input is the sum, over the non-shared forward inner outputs, of the local *)
(* gradient of the output with respect to the input, plus, for tap and       *)
(* non-sequence inputs, the gradient carried from the previous backward      *)
(* step: every path is a term of the sum exactly once, and nothing else is;  *)
(* a sum without terms is a zero.                                            *)
C20_SumOfPaths ==
    ((Summed \/ pc = "grad_done") /\ NumClean(cfg) >= 1) =>
        /\ Summed => Len(inner_gfn_outs) = Len(diff_inputs(cfg))
        /\ \A p \in 1..Len(diff_inputs(cfg)) :
              IF PathsTo(p) = {}
              THEN SumFor(p) = << <<"zeros_like", p - 1, 0>> >>
              ELSE /\ Values(SumFor(p)) = PathsTo(p)
                   /\ Len(SumFor(p)) = Cardinality(PathsTo(p))

\* the last non-sequence is read by the first two outputs and by no other:
\* its sum has both local gradients and the carried gradient
C20_Witness ==
    /\ pc = "grad_done"
    /\ NumClean(cfg) = 3
    /\ LET p == Len(diff_inputs(cfg))
       IN  /\ PathsTo(p) = {<<"d", 0, p - 1>>, <<"d", 1, p - 1>>, <<"g_prev", p - 1, 0>>}
           /\ Len(SumFor(p)) = 3
           /\ \E q \in 1..(p - 1) : SumFor(q) = << <<"zeros_like", q - 1, 0>> >>

----------------------------------------------------------------------------
(* Vocabulary of the masked gradients *)

\* the slots of the list grad returns that are None by construction: entry 0,
\* the shared states and the NIT-SOT lengths (1-based positions)
NoneSlots ==
    {1} \cup {1 + cfg.n_seqs + TapOutputs + k : k \in 1..(cfg.n_shared_outs + cfg.n_nit_sot)}

\* the inner output of the backward op that output x of its node stacks, or
\* ends as
InnerOutputOf(x) == inner_gfn_outs[BackwardTypes[x.k + 1][3] + 1]

----------------------------------------------------------------------------
(* make_node applied: ops with typed inner slots and typed arguments *)

\* the ops make_node is applied to: the taps of GradTaps, MIT-MOT output j
\* writing j + extra slices
NodeOp(n_s, n_mm, n_ms, n_ss, n_ns, n_sh, extra) ==
    [n_seqs |-> n_s, n_mit_mot |-> n_mm, n_mit_sot |-> n_ms, n_sit_sot |-> n_ss,
     n_nit_sot |-> n_ns, n_shared_outs |-> n_sh, n_other |-> 1,
     n_mit_mot_outs |-> SumLen([j \in 1..n_mm |-> [k \in 1..(j + extra) |-> k]]),
     tap_array |-> GradTaps(n_mm, n_ms, n_ss),
     mit_mot_out_slices |-> [j \in 1..n_mm |-> [k \in 1..(j + extra) |-> k]],
     as_while |-> FALSE, inplace |-> FALSE]

\* the inner input slots (0-based) that read the taps of tap output c (1-based)
OwnTapSlots(op, c) ==
    {op.n_seqs + SumLen(Take(op.tap_array, c - 1)) + m :
        m \in 0..(Len(op.tap_array[c]) - 1)}

\* the inner output slots (0-based) of tap output c (1-based)
OwnOutSlots(op, c) ==
    IF c <= op.n_mit_mot
    THEN {SumLen(Take(op.mit_mot_out_slices, c - 1)) + m :
            m \in 0..(Len(op.mit_mot_out_slices[c]) - 1)}
    ELSE {op.n_mit_mot_outs + c - op.n_mit_mot - 1}

Flip(d) == IF d = "float32" THEN "float64" ELSE "float32"

\* the places a dtype can stand out: nowhere, an inner input, an inner
\* output, an argument other than n_steps
OddPlaces(op) ==
    {<<"nowhere", 0>>}
    \cup {<<"inner_in", k>> : k \in 0..(NumInputSlots(op) - 1)}
    \cup {<<"inner_out", k>> : k \in 0..(NumOutputSlots(op, FALSE) - 1)}
    \cup {<<"outer", k>> : k \in 1..(NumArgs(op) - 1)}

\* float64 for the slots of tap output wide, float32 elsewhere, the dtype at
\* place odd flipped
InnerInputDtypes(op, wide, odd) ==
    [k \in 1..NumInputSlots(op) |->
        LET d == IF wide \in 1..Len(op.tap_array) /\ (k - 1) \in OwnTapSlots(op, wide)
                 THEN "float64" ELSE "float32"
        IN  IF odd = <<"inner_in", k - 1>> THEN Flip(d) ELSE d]

InnerOutputDtypes(op, wide, odd) ==
    [k \in 1..NumOutputSlots(op, FALSE) |->
        LET d == IF wide \in 1..Len(op.tap_array) /\ (k - 1) \in OwnOutSlots(op, wide)
                 THEN "float64" ELSE "float32"
        IN  IF odd = <<"inner_out", k - 1>> THEN Flip(d) ELSE d]

\* the arguments: n_steps, then tensors, the NIT-SOT lengths integer scalars
NodeInputs(op, wide, odd) ==
    [k \in 1..NumArgs(op) |->
        LET c == k - 1 - op.n_seqs
            nit == 1 + op.n_seqs + Len(op.tap_array) + op.n_shared_outs
            d == IF k = 1 \/ (k > nit /\ k <= nit + op.n_nit_sot) THEN "int64"
                 ELSE IF c = wide THEN "float64" ELSE "float32"
        IN  [dtype |-> IF odd = <<"outer", k - 1>> THEN Flip(d) ELSE d,
             ndim |-> IF d = "int64" THEN 0 ELSE 1]]

InitNodeWith(op, wide, odd) ==
    /\ cfg = op @@ [inputs |-> InnerInputDtypes(op, wide, odd),
                    outputs |-> InnerOutputDtypes(op, wide, odd)]
    /\ args = NodeInputs(op, wide, odd)
    /\ pc = "make_node"
    /\ outs = << >>
    /\ n_steps = 0
    /\ seqs = << >>
    /\ store_steps = << >>
    /\ pos = << >>
    /\ i = 0
    /\ cond = TRUE
    /\ input_storage = << >>
    /\ output_storage = << >>
    /\ raised = NoError
    /\ calls = 0
    /\ seq_trace = << >>
    /\ cond_trace = << >>
    /\ g_outs = << >>
    /\ inner_gfn_outs = << >>
    /\ scan_seqs = << >>
    /\ scan_mit_mot = << >>
    /\ scan_mit_mot_outs = << >>
    /\ mit_mot_taps = << >>
    /\ mit_mot_out_slices = << >>
    /\ info = << >>
    /\ scan_inputs = << >>
    /\ gradients = << >>

InitNode ==
    \E n_s \in 0..MaxSingle, n_mm \in 0..MaxSingle, n_ms \in 0..MaxPlain,
       n_ss \in 0..MaxSingle, n_ns \in 0..MaxSingle, n_sh \in 0..MaxSingle,
       extra \in 0..1 :
        LET op == NodeOp(n_s, n_mm, n_ms, n_ss, n_ns, n_sh, extra)
        IN  \E wide \in 0..Len(op.tap_array), odd \in OddPlaces(op) :
                InitNodeWith(op, wide, odd)

\* make_node(*inputs): the node with one output per output type, or the
\* exception
MakeNode ==
    /\ pc = "make_node"
    /\ IF make_node(cfg, args) = "ok"
       THEN /\ pc' = "node_done"
            /\ outs' = OutputTypes(cfg, Len(cfg.outputs))
            /\ UNCHANGED raised
       ELSE /\ pc' = "node_error"
            /\ raised' = [exc |-> make_node(cfg, args), tags |-> {}]
            /\ UNCHANGED outs
    /\ UNCHANGED <<cfg, args, n_steps, seqs, store_steps, pos, i, cond, input_storage,
                   output_storage, calls, seq_trace, cond_trace>>
    /\ UNCHANGED grad_locals

NextNode == MakeNode

SpecNode == InitNode /\ [][NextNode]_vars

----------------------------------------------------------------------------
(* Vocabulary of the properties of make_node *)

\* the initial state of tap output c (1-based) among the arguments
InitialState(c) == args[1 + cfg.n_seqs + c]

\* the dtype of the initial state of some tap output differs from that of one
\* of its own inner tap inputs or inner outputs
ChannelMismatch ==
    \E c \in 1..Len(cfg.tap_array) :
        \/ \E k \in OwnTapSlots(cfg, c) : cfg.inputs[k + 1] # InitialState(c).dtype
        \/ \E k \in OwnOutSlots(cfg, c) : cfg.outputs[k + 1] # InitialState(c).dtype

\* the sequences and the shared states agree with their inner slots, and the
\* NIT-SOT lengths are integer scalars
OthersAgree ==
    /\ \A s \in 1..cfg.n_seqs : args[1 + s].dtype = cfg.inputs[s]
    /\ \A k \in 1..cfg.n_shared_outs :
          args[1 + cfg.n_seqs + Len(cfg.tap_array) + k].dtype
            = cfg.outputs[cfg.n_mit_mot_outs + cfg.n_mit_sot + cfg.n_sit_sot
                          + cfg.n_nit_sot + k]
    /\ \A k \in 1..cfg.n_nit_sot :
          LET x == args[1 + cfg.n_seqs + Len(cfg.tap_array) + cfg.n_shared_outs + k]
          IN  x.dtype \in IntDtypes /\ x.ndim = 0

(* C24: make_node raises whenever, for some MIT-MOT, MIT-SOT or SIT-SOT       *)
(* output, the dtype of the initial-state argument differs from the dtype of  *)
(* one of that output's inner tap inputs or of one of its inner outputs, each *)
(* output compared against its own slots whatever the numbers of taps and of  *)
(* out slices; it builds the node when all of them agree (and the sequences,  *)
(* shared states and NIT-SOT lengths pass their checks).                      *)
C24_DtypesChecked ==
    pc \in {"node_done", "node_error"} =>
        /\ ChannelMismatch => (pc = "node_error" /\ raised.exc = "ValueError")
        /\ (~ChannelMismatch /\ OthersAgree) => pc = "node_done"

\* a MIT-MOT output with two taps and two out slices, followed by other
\* outputs: only its second inner output has another dtype, and make_node raises
C24_Witness ==
    /\ pc = "node_error"
    /\ cfg.n_mit_mot = 1 /\ cfg.n_mit_sot = MaxPlain /\ cfg.n_sit_sot = 1
    /\ Len(cfg.mit_mot_out_slices[1]) = 2
    /\ cfg.outputs[2] # InitialState(1).dtype
    /\ \A k \in 1..Len(cfg.outputs) : k # 2 => cfg.outputs[k] = "float32"

\* every dtype agrees, one output being float64 in all its slots: the node is built
C24_WitnessBuilt ==
    /\ pc = "node_done"
    /\ cfg.n_mit_mot = 1 /\ cfg.n_mit_sot = MaxPlain
    /\ InitialState(2).dtype = "float64"
    /\ Len(outs) = NumOuts(cfg)

----------------------------------------------------------------------------
(* The round trip: the backward op of a loop that copies its inputs, run on   *)
(* gradients that are all ones                                                *)

Ones(n) == [k \in 1..n |-> Num(1)]

\* forward loops whose inner function copies an input to each output: a
\* sequence to a NIT-SOT output; the previous state to a SIT-SOT output; a
\* non-sequence to a NIT-SOT output; a sequence and a state together; the
\* last state to a MIT-SOT output
IdentityOps ==
    { ForwardOp(1, 0, 0, 0, 1, 0, 1, -1, FALSE, {<<0, 0>>}),
      ForwardOp(0, 0, 0, 1, 0, 0, 1, -1, FALSE, {<<0, 0>>}),
      ForwardOp(0, 0, 0, 0, 1, 0, 1, -1, FALSE, {<<0, 0>>}),
      ForwardOp(1, 0, 0, 1, 1, 0, 1, -1, FALSE, {<<0, 1>>, <<1, 0>>}),
      ForwardOp(0, 0, 1, 0, 0, 0, 1, -1, FALSE, {<<0, 1>>}) }

\* a gradient comes in for every output
AllGradOuts(op) == [k \in 1..NumOuts(op) |-> Var("g_out", k - 1)]

InitRound ==
    \E op \in IdentityOps, n \in 1..MaxSteps : InitGradOn(op, n, AllGradOuts(op))

\* the arguments of the backward op when every incoming gradient is all
\* ones: do_steps, the forward sequences and outputs, the gradients of the
\* NIT-SOT outputs, the gradients of the outputs that have an initial
\* state, zeros for the non-sequences, the NIT-SOT lengths, the non-sequences
OnesArgs(lay, n_g, inputs, n, flipped, rooms) ==
    <<inputs[1]>>
    \o [s \in 1..lay.n_seqs |->
          IF s > lay.n_seqs - n_g THEN Ones(n) ELSE SeqData(s - 1, n, flipped)]
    \o [c \in 1..lay.n_mit_mot |-> Ones(StoreFor(lay, c, rooms))]
    \o [s \in 1..lay.n_shared_outs |-> Num(0)]
    \o NitSotLengths(lay, inputs)
    \o [k \in 1..lay.n_other |-> OtherArg(k - 1)]

\* line 1333 evaluated on all-ones gradients, the inner function of the
\* backward op being the gradient sums that grad built
RunOnes ==
    /\ pc = "grad_done"
    /\ \E mode \in StorageModes, flipped \in BOOLEAN :
          LET lay == BackwardLayout(info, cfg.n_other)
              n == args[1]
              rooms == BackwardRooms(cfg, info, scan_inputs, n)
              inner_mit_mot == MitMotOf(cfg, g_outs, MaskInputs(SumFrom(cfg, << >>, 0))).ins
          IN  /\ cfg' = lay @@ [as_while |-> info.as_while,
                                inplace |-> (mode = "inplace"),
                                until |-> "free", storage |-> mode, rooms |-> rooms,
                                fn |-> inner_gfn_outs,
                                fn_ins |-> inner_gfn_ins(cfg, inner_mit_mot)]
              /\ args' = OnesArgs(lay, cfg.n_nit_sot, scan_inputs, n, flipped, rooms)
              /\ outs' = MakeOuts(lay, mode, rooms)
              /\ input_storage' = [k \in 1..NumInputSlots(lay) |-> NoValue]
              /\ output_storage' =
                    [k \in 1..NumOutputSlots(lay, info.as_while) |-> NoValue]
    /\ pc' = "start"
    /\ n_steps' = 0
    /\ seqs' = << >>
    /\ store_steps' = << >>
    /\ pos' = << >>
    /\ i' = 0
    /\ cond' = TRUE
    /\ raised' = NoError
    /\ calls' = 0
    /\ seq_trace' = << >>
    /\ cond_trace' = << >>
    /\ UNCHANGED grad_locals

NextRound ==
    \/ SumGradients \/ BuildSeqs \/ BuildMitMot \/ BuildInfo \/ ApplyBackward
    \/ RunOnes
    \/ Start \/ Allocate \/ Gather \/ Call \/ Scatter \/ Finish

SpecRound == InitRound /\ [][NextRound]_vars

----------------------------------------------------------------------------
(* C22: the gradients of a loop that copies its inputs *)

\* the backward op, run on all-ones gradients, has returned
RoundDone == pc = "done" /\ "fn" \in DOMAIN cfg

\* the gradient returned for plain sequence s, for the initial state of
\* tap-output c and for the non-sequence of the forward loop
SeqGradient(s) == ValueOf(gradients[1 + s])

StateGradient(c) == ValueOf(gradients[1 + cfg.n_nit_sot + c])

NonSeqGradient == outs[gradients[Len(gradients)].k + 1]

\* the entries of its history that tap-output c held before the forward loop
HistoryOf(c) == Len(cfg.tap_array[c]) - 1

\* the outputs of the forward step that copy the non-sequence
CopiesOfNonSeq ==
    Cardinality({k \in 1..Len(cfg.fn[Len(cfg.fn)]) : cfg.fn[Len(cfg.fn)][k][1] = "d"})

(* C22 as stated: for a loop whose inner function is the identity, the       *)
(* gradient loop built by grad, run on all-ones incoming gradients, returns  *)
(* all ones for every plain sequence, every tap-output initial state and     *)
(* every non-sequence.                                                       *)
C22_RoundTripOnes ==
    RoundDone =>
        /\ \A s \in 1..cfg.n_nit_sot : SeqGradient(s) = Ones(args[1])
        /\ \A c \in 1..cfg.n_mit_mot : StateGradient(c) = Ones(Len(StateGradient(c)))
        /\ NonSeqGradient = Num(1)

(* C22 amended: the gradient of a plain sequence is all ones; entry k of the *)
(* gradient of the initial state of a tap-output with h history entries is   *)
(* the number of output entries that copy it, 1 before the last history      *)
(* entry and n + h + 1 - k from it on; the gradient of a non-sequence is n   *)
(* for each output that copies it, and zero when none does.                  *)
C22_RoundTripCounts ==
    RoundDone =>
        LET n == args[1]
        IN  /\ \A s \in 1..cfg.n_nit_sot : SeqGradient(s) = Ones(n)
            /\ \A c \in 1..cfg.n_mit_mot :
                  LET g == StateGradient(c)
                      h == HistoryOf(c)
                  IN  /\ Len(g) = n + h
                      /\ \A k \in 1..Len(g) :
                            g[k] = Num(IF k < h THEN 1 ELSE n + h + 1 - k)
            /\ NonSeqGradient = Num(n * CopiesOfNonSeq)

\* a sequence and a state copied over MaxSteps steps: ones for the
\* sequence, MaxSteps + 1 for the first entry of the state
C22_Witness ==
    /\ RoundDone
    /\ args[1] = MaxSteps
    /\ cfg.n_nit_sot = 1
    /\ cfg.n_mit_mot = 1
    /\ SeqGradient(1) = Ones(MaxSteps)
    /\ StateGradient(1)[1] = Num(MaxSteps + 1)
    /\ StateGradient(1)[MaxSteps + 1] = Num(1)

----------------------------------------------------------------------------
(* C23: construction and inconsistent tap structures *)

\* the backward MIT-MOT outputs that the info built by grad declares
\* without any write slice
NoWriteSlices ==
    {c \in 1..Len(info.mit_mot_out_slices) : info.mit_mot_out_slices[c] = << >>}

\* grad has returned gradients of a backward op that was constructed
GraphReturned == pc = "grad_done"

(* C23: construction fails fast, returning no loop and no gradient graph,    *)
(* when a MIT-MOT output of the op to construct has no declared write        *)
(* slices: grad returns gradients only of a backward op all of whose         *)
(* MIT-MOT outputs have write slices.                                        *)
C23_FailsFast == GraphReturned => NoWriteSlices = {}

\* a forward op with a MIT-MOT and a MIT-SOT output: the backward op is
\* declared with two MIT-MOT outputs, the second without write slices, and
\* grad returns its gradients
C23_Witness ==
    /\ GraphReturned
    /\ cfg.n_mit_mot = 1
    /\ cfg.n_mit_sot = 1
    /\ info.n_mit_mot = 2
    /\ NoWriteSlices = {2}
    /\ info.mit_mot_out_slices[1] = <<0, -1, 2, 1>>
    /\ gradients # << >>
    /\ raised = NoError

----------------------------------------------------------------------------
(* The slices of the inner inputs, lines 455-572 *)

\* the places of a list of n_in inner inputs, 0-based as self.inputs
Places(n_in) == [k \in 1..n_in |-> k - 1]

inner_seqs(op, n_in) == Slice(Places(n_in), 0, op.n_seqs)

inner_mitmot(op, n_in) ==
    LET n_taps == SumLen(Take(op.tap_array, op.n_mit_mot))
    IN  Slice(Places(n_in), op.n_seqs, op.n_seqs + n_taps)

inner_mitsot(op, n_in) ==
    LET n_mitmot_taps == SumLen(Take(op.tap_array, op.n_mit_mot))
        ntaps_upto_sit_sot == SumLen(Take(op.tap_array, op.n_mit_mot + op.n_mit_sot))
    IN  Slice(Places(n_in), op.n_seqs + n_mitmot_taps, op.n_seqs + ntaps_upto_sit_sot)

\* variant: the SIT-SOT inputs are looked for right after the MIT-MOT taps
inner_sitsot_AfterMitMot(op, n_in) ==
    LET offset == op.n_seqs + SumLen(Take(op.tap_array, op.n_mit_mot))
    IN  Slice(Places(n_in), offset, offset + op.n_sit_sot)

inner_sitsot(op, n_in) ==
    LET n_taps_upto_sit_sot == SumLen(Take(op.tap_array, op.n_mit_mot + op.n_mit_sot))
        offset == op.n_seqs + n_taps_upto_sit_sot
    IN  Slice(Places(n_in), offset, offset + op.n_sit_sot)

inner_shared(op, n_in) ==
    LET n_taps_upto_sit_sot == SumLen(Take(op.tap_array, op.n_mit_mot + op.n_mit_sot))
        offset == op.n_seqs + n_taps_upto_sit_sot + op.n_sit_sot
    IN  Slice(Places(n_in), offset, offset + op.n_shared_outs)

inner_non_seqs(op, n_in) ==
    LET n_taps_upto_sit_sot == SumLen(Take(op.tap_array, op.n_mit_mot + op.n_mit_sot))
        offset == op.n_seqs + n_taps_upto_sit_sot + op.n_sit_sot + op.n_shared_outs
    IN  Slice(Places(n_in), offset, n_in)

\* one output of every kind: a MIT-MOT (taps 0, 1; out slice 1), a MIT-SOT
\* (taps -2, -1), a SIT-SOT, a NIT-SOT and a shared output, with one plain
\* sequence and two non-sequences
LayoutD ==
    [n_seqs |-> 1, n_mit_mot |-> 1, n_mit_sot |-> 1, n_sit_sot |-> 1,
     n_nit_sot |-> 1, n_shared_outs |-> 1, n_mit_mot_outs |-> 1, n_other |-> 2,
     tap_array |-> << <<0, 1>>, <<-2, -1>>, <<-1>> >>,
     mit_mot_out_slices |-> << <<1>> >>]

\* every layout, run forward on sequences of the length asked for
InitSlots ==
    \E lay \in Layouts \cup {LayoutC, LayoutD}, ns \in 1..MaxSteps, while \in BOOLEAN,
       mode \in StorageModes, room \in {0, MaxSteps} :
        InitWith(lay, ns, while, "free", mode, [s \in 1..lay.n_seqs |-> ns], FALSE,
                 Rooms(lay, room, MaxSteps))

SpecSlots == InitSlots /\ [][Next]_vars

\* what the inner function is about to read at the places of a slice
Stored(places) == [k \in 1..Len(places) |-> input_storage[places[k] + 1]]

\* the reads of the taps of outputs lo..hi (1-based), in order
ReadsOf(lo, hi) == Flatten([c \in 1..(hi - lo + 1) |-> TapReads(lo + c - 1)])

\* the inner function is about to be called on the slots execute filled
SlotsFilled == pc = "call"

(* C25: the inner inputs are [sequence slices][tap reads of the MIT-MOT,     *)
(* MIT-SOT, SIT-SOT outputs, in that order][shared][non-sequences]: the      *)
(* slices inner_seqs, inner_mitmot, inner_mitsot, inner_sitsot, inner_shared *)
(* and inner_non_seqs are disjoint, contiguous and cover every inner input,  *)
(* and each holds what execute stored for that kind.                         *)
C25_SlotOrder ==
    SlotsFilled =>
        LET n_in == Len(input_storage)
        IN  /\ inner_seqs(cfg, n_in) \o inner_mitmot(cfg, n_in) \o inner_mitsot(cfg, n_in)
                  \o inner_sitsot(cfg, n_in) \o inner_shared(cfg, n_in)
                  \o inner_non_seqs(cfg, n_in) = Places(n_in)
            /\ Stored(inner_seqs(cfg, n_in)) = [s \in 1..cfg.n_seqs |-> seqs[s][i + 1]]
            /\ Stored(inner_mitmot(cfg, n_in)) = ReadsOf(1, cfg.n_mit_mot)
            /\ Stored(inner_mitsot(cfg, n_in)) =
                  ReadsOf(cfg.n_mit_mot + 1, cfg.n_mit_mot + cfg.n_mit_sot)
            /\ Stored(inner_sitsot(cfg, n_in)) =
                  ReadsOf(cfg.n_mit_mot + cfg.n_mit_sot + 1, n_outs)
            /\ Stored(inner_shared(cfg, n_in)) = SharedReads
            /\ Stored(inner_non_seqs(cfg, n_in)) =
                  [k \in 1..cfg.n_other |-> OtherArg(k - 1)]

\* the second step of the layout with one output of every kind: eight inner
\* inputs, the SIT-SOT one in place 5 holding what the first step computed
C25_Witness ==
    /\ SlotsFilled
    /\ cfg.n_mit_mot = 1 /\ cfg.n_mit_sot = 1 /\ cfg.n_sit_sot = 1
    /\ i = 1
    /\ Len(input_storage) = 9
    /\ inner_sitsot(cfg, 9) = <<5>>
    /\ input_storage[6] = <<"step", 2, 0>>
    /\ inner_non_seqs(cfg, 9) = <<7, 8>>
    /\ input_storage[9] = OtherArg(1)

----------------------------------------------------------------------------
(* C26: seeding a reused buffer *)

\* step 2.1 has run and no iteration has started
Seeded == pc = "loop" /\ i = 0

\* execute keeps the buffer the caller left for tap output c (1-based)
Reuses(c) ==
    /\ ~cfg.inplace
    /\ CallerOuts[c].alloc
    /\ CallerOuts[c].shape = 0
    /\ Len(CallerOuts[c].data) >= store_steps[c]

\* buffer c holds the first -mintap entries of its initial state and, after
\* them, what the caller's buffer held
HistoryOnly(c) ==
    /\ Len(outs[c].data) = store_steps[c]
    /\ \A k \in 1..store_steps[c] :
          outs[c].data[k] = IF k <= -mintaps[c]
                            THEN Arg(seqs_arg_offset + c - 1)[k]
                            ELSE CallerOuts[c].data[k]

(* C26: when execute reuses the caller's buffer of a MIT-SOT or SIT-SOT      *)
(* output, only its first -mintap entries are overwritten, with the history, *)
(* before the loop; this for every such output, the first one included.      *)
C26_SeedsHistoryOnly ==
    Seeded =>
        \A c \in (cfg.n_mit_mot + 1)..n_outs : Reuses(c) => HistoryOnly(c)

\* the reused buffer of the first MIT-SOT/SIT-SOT output holds its whole
\* initial state, while that of a later one holds the history only
C26_Witness ==
    /\ Seeded
    /\ cfg.n_mit_mot = 0
    /\ n_outs = 2
    /\ Reuses(1) /\ Reuses(2)
    /\ store_steps[1] > -mintaps[1]
    /\ store_steps[2] > -mintaps[2]
    /\ outs[1].data = Arg(seqs_arg_offset)
    /\ ~HistoryOnly(1)
    /\ HistoryOnly(2)

----------------------------------------------------------------------------
(* C27: inplace and destroy_map, lines 96-101 *)

\* variant: the inputs are counted without n_steps
destroy_map_FromSeqs(op) ==
    IF op.inplace
    THEN [c \in 1..(op.n_mit_mot + op.n_mit_sot + op.n_sit_sot) |-> <<c - 1 + op.n_seqs>>]
    ELSE << >>

\* destroy_map: entry idx + 1 lists the inputs output idx destroys
destroy_map(op) ==
    IF op.inplace
    THEN [c \in 1..(op.n_mit_mot + op.n_mit_sot + op.n_sit_sot) |->
            <<c - 1 + 1 + op.n_seqs>>]
    ELSE << >>

\* the inputs that destroy_map declares as destroyed
Destroyed == {destroy_map(cfg)[c][1] : c \in 1..Len(destroy_map(cfg))}

\* a is what the first entries of b hold
IsPrefix(a, b) == Len(a) <= Len(b) /\ \A k \in 1..Len(a) : a[k] = b[k]

\* the buffers of the tap outputs exist
Allocated == store_steps # << >>

\* the buffer of tap output c (1-based) is the memory of the input that
\* destroy_map names for it: what the buffer holds is what the input holds
SharesDestroyed(c) ==
    /\ c <= Len(destroy_map(cfg))
    /\ outs[c].alloc
    /\ IsPrefix(outs[c].data, Arg(destroy_map(cfg)[c][1]))

\* a step of execute leaves every input that is not declared destroyed as it was
KeepsInputs ==
    /\ Len(args') = Len(args)
    /\ \A k \in 1..Len(args) : (k - 1) \notin Destroyed => args'[k] = args[k]

(* C27: with inplace, the buffer of tap output idx is the storage of its     *)
(* initial-state argument, input idx + 1 + n_seqs, as destroy_map declares;  *)
(* without inplace destroy_map is empty; and execute modifies no input that  *)
(* destroy_map does not name: without inplace no initial state and no        *)
(* sequence, with inplace nothing but the initial states.                    *)
C27_InplaceShares ==
    /\ [](cfg.inplace <=> Len(destroy_map(cfg)) = n_outs /\ n_outs > 0)
    /\ []((~cfg.inplace) => Destroyed = {})
    /\ []((Allocated /\ cfg.inplace) => \A c \in 1..n_outs : SharesDestroyed(c))
    /\ [][KeepsInputs]_vars

\* inplace, after the loop: the last entry of the first initial-state
\* argument holds a value the loop computed
C27_Witness ==
    /\ pc = "done"
    /\ cfg.inplace
    /\ n_steps = MaxSteps
    /\ Destroyed # {}
    /\ SharesDestroyed(1)
    /\ \E t \in 0..(MaxSteps - 1) :
          Arg(1 + cfg.n_seqs)[Len(Arg(1 + cfg.n_seqs))] = <<"step", 0, t>>

\* without inplace, after the loop: the output holds computed values and the
\* initial-state argument holds what the caller passed
C27_WitnessCopy ==
    /\ pc = "done"
    /\ ~cfg.inplace
    /\ n_steps = MaxSteps
    /\ outs[n_outs].data # Arg(seqs_arg_offset + n_outs - 1)
    /\ Arg(seqs_arg_offset + n_outs - 1) =
          InitState(n_outs - 1, Len(Arg(seqs_arg_offset + n_outs - 1)))

----------------------------------------------------------------------------
(* C28: step 6 after a full run and after an early stop *)

\* step 6 runs to its end, on the buffers the loop left
Finishes == pc = "loop" /\ pc' = "done"

\* the loop stopped before n_steps iterations
StoppedEarly == i < n_steps

\* the entries of a ring of length store, oldest first
Chronological(d, store, pdx) == [k \in 1..store |-> d[((pdx + k - 1) % store) + 1]]

\* the first m entries of d followed by zeros, len entries in all
Padded(d, m, len) == [k \in 1..Max2(len, 0) |-> IF k <= m THEN d[k] ELSE Zero]

\* output c (1-based) holds a zero after the entries the loop filled
HoldsPadding(c) ==
    /\ Len(outs[c].data) > i - mintaps[c]
    /\ outs[c].data[Len(outs[c].data)] = Zero

(* C28 as stated: after a full run and after an early stop step 6 does the   *)
(* same to every buffer, except that zeros are written only after an early   *)
(* stop; nothing else depends on how the loop ended: a buffer gets zeros     *)
(* only when the loop stopped early, and no buffer changes its length.       *)
C28_PaddingOnlyEarly ==
    [][Finishes =>
        \A c \in (cfg.n_mit_mot + 1)..n_tracked :
            /\ (outs'[c].data # << >> /\ outs'[c].data[Len(outs'[c].data)] = Zero
                    /\ outs[c].data[Len(outs[c].data)] # Zero) => StoppedEarly
            /\ Len(outs'[c].data) = Len(outs[c].data)]_vars

(* C28 amended: both terminal states go through the same step 6, which       *)
(* looks at each MIT-SOT/SIT-SOT/NIT-SOT buffer: with store_steps below      *)
(* i - mintap the ring is put in chronological order; with store_steps       *)
(* above it the entries from i - mintap on are set to zero, after a full run *)
(* as well as after an early stop; an early stop only adds that the last     *)
(* n_steps - i entries of such a zero-filled buffer are cut off. MIT-MOT     *)
(* and shared outputs are returned as the loop left them.                    *)
C28_SameReconciliation ==
    [][Finishes =>
        \A c \in 1..Len(outs) :
            IF c <= cfg.n_mit_mot \/ c > n_tracked THEN outs'[c] = outs[c]
            ELSE LET d == outs[c].data
                     m == i - mintaps[c]
                     store == store_steps[c]
                     cut == IF StoppedEarly THEN n_steps - i ELSE 0
                 IN  outs'[c].data =
                        IF store < m THEN Chronological(d, store, pos[c])
                        ELSE IF store > m THEN Padded(d, m, Len(d) - cut)
                        ELSE d]_vars

\* a for-loop that ran all its steps into buffers with room to spare: the
\* last output is returned in full length, zeros after the computed entries
C28_Witness ==
    /\ pc = "done"
    /\ ~cfg.as_while
    /\ i = n_steps
    /\ n_steps = MaxSteps
    /\ store_steps[n_tracked] > i - mintaps[n_tracked]
    /\ Len(outs[n_tracked].data) = store_steps[n_tracked]
    /\ HoldsPadding(n_tracked)
    /\ outs[n_tracked].data[i - mintaps[n_tracked]] = <<"step", n_tracked - 1, i - 1>>

\* a loop that stopped early: the last output is cut by n_steps - i entries
C28_WitnessEarly ==
    /\ pc = "done"
    /\ cfg.as_while
    /\ i > 0
    /\ i < n_steps
    /\ Len(outs[n_tracked].data) = store_steps[n_tracked] - (n_steps - i)
    /\ HoldsPadding(n_tracked)

----------------------------------------------------------------------------
(* C29: the ring positions *)

\* the positions exist: step 2 has run
Positioned == pos # << >>

\* the position of tracked output c after k iterations
PosAfter(c, k) == (-mintaps[c] + k) % store_steps[c]

\* a step that changes a position ends an iteration and advances them all
AdvanceTogether ==
    (Positioned /\ pos' # pos) =>
        /\ i' = i + 1
        /\ \A c \in 1..n_tracked : pos'[c] = (pos[c] + 1) % store_steps[c]

(* C29: for every tracked output (MIT-MOT, MIT-SOT, SIT-SOT, NIT-SOT) the    *)
(* position after i completed iterations is (-mintap + i) mod store_steps,   *)
(* within 0..store_steps - 1; the positions advance together by one at the   *)
(* end of each iteration and nothing else changes a position.                *)
C29_RingPosition ==
    /\ [](Positioned =>
            /\ Len(pos) = n_tracked
            /\ \A c \in 1..n_tracked :
                  /\ pos[c] = PosAfter(c, i)
                  /\ pos[c] >= 0
                  /\ pos[c] < store_steps[c])
    /\ [][AdvanceTogether]_vars

\* after MaxSteps iterations a ring shorter than the trace has wrapped, and
\* a MIT-MOT position has advanced with the others
C29_Witness ==
    /\ Positioned
    /\ i = MaxSteps
    /\ cfg.n_mit_mot = 1
    /\ store_steps[1] > MaxSteps
    /\ pos[1] = MaxSteps
    /\ \E c \in 2..n_tracked :
          /\ store_steps[c] > 1
          /\ store_steps[c] < i - mintaps[c]
          /\ pos[c] = (i - mintaps[c]) - store_steps[c]

----------------------------------------------------------------------------
(* C30: the length returned after an early stop *)

\* a while-loop has returned after fewer than n_steps iterations
EarlyStop == pc = "done" /\ cfg.as_while /\ i < n_steps

\* the seeded history of output c (1-based) followed by the i values the
\* iterations computed, in order
ExecutedTrace(c) ==
    [k \in 1..(i - mintaps[c]) |->
        IF k <= -mintaps[c] THEN <<"init", c - 1, k - 1>>
        ELSE <<"step", c - 1, k - 1 + mintaps[c]>>]

\* the buffer of c has room for every step asked for, and no more
WholeTrace(c) == store_steps[c] = n_steps - mintaps[c]

(* C30: after a while-loop stopped early, every MIT-SOT/SIT-SOT/NIT-SOT      *)
(* output returned has i - mintap entries, the seeded history followed by    *)
(* the i computed values in order, whatever store_steps the caller supplied. *)
C30_EarlyLength ==
    EarlyStop =>
        \A c \in (cfg.n_mit_mot + 1)..n_tracked : outs[c].data = ExecutedTrace(c)

\* the same for the buffers that have room for exactly n_steps steps
C30_EarlyLengthWholeTrace ==
    EarlyStop =>
        \A c \in (cfg.n_mit_mot + 1)..n_tracked :
            WholeTrace(c) => outs[c].data = ExecutedTrace(c)

\* a loop asked for MaxSteps steps that stopped after one, its last output a
\* buffer with room for MaxSteps - 1 steps: only the history is returned
C30_Witness ==
    /\ EarlyStop
    /\ n_steps = MaxSteps
    /\ i = 1
    /\ store_steps[n_outs] = MaxSteps - 1 - mintaps[n_outs]
    /\ Len(outs[n_outs].data) = store_steps[n_outs] - (MaxSteps - 1)
    /\ Len(outs[n_outs].data) < i - mintaps[n_outs]
    /\ outs[n_outs].data = Take(ExecutedTrace(n_outs), -mintaps[n_outs])

----------------------------------------------------------------------------
(* C31: the sequences grad cuts from the MIT-SOT outputs *)

\* a[lo:hi] as Cut writes it: hi = 0 is the open end, hi < 0 counts from the end
PyCut(a, lo, hi) == Slice(a, lo, IF hi > 0 THEN hi ELSE Len(a) + hi)

\* the entries of a buffer of len entries (0-based) that the expression with
\* these reversals and cuts holds, in order
RECURSIVE EntriesOf(_, _)
EntriesOf(a, ops) ==
    IF ops = << >> THEN a
    ELSE EntriesOf(IF Head(ops)[1] = "rev" THEN Reverse(a)
                   ELSE PyCut(a, Head(ops)[2], Head(ops)[3]),
                   Tail(ops))

\* step 10 of grad has built the sequences of the backward op
SeqsBuilt == scan_seqs # << >>

\* the steps the forward loop ran
StepsRun == Abs(args[1])

\* where the sequence for tap t (1-based) of forward tap output c (1-based,
\* MIT-MOT or MIT-SOT) sits in scan_seqs
TapSeqPlace(c, t) == cfg.n_seqs + SumLen(Take(cfg.tap_array, c - 1)) + t

\* the entries of the output buffer of c that the sequence for its tap t holds
TapSeqEntries(c, t) ==
    EntriesOf([b \in 1..(StepsRun - SeqMin(cfg.tap_array[c])) |-> b - 1],
              scan_seqs[TapSeqPlace(c, t)].ops)

(* C31: for every forward MIT-SOT output run for n steps and every tap k of  *)
(* it, the sequence grad feeds to the backward loop for that tap is cut from *)
(* the output of that channel, has at least n entries, and its entry at      *)
(* backward step i is entry (n-1-i) + k - mintap of the output buffer, the   *)
(* value tap k read at forward step n-1-i.                                   *)
C31_TapSequences ==
    SeqsBuilt =>
        \A c \in (cfg.n_mit_mot + 1)..(cfg.n_mit_mot + cfg.n_mit_sot) :
            \A t \in 1..Len(cfg.tap_array[c]) :
                LET n == StepsRun
                    k == cfg.tap_array[c][t]
                    e == TapSeqEntries(c, t)
                IN  /\ scan_seqs[TapSeqPlace(c, t)].base = "scan_out"
                    /\ scan_seqs[TapSeqPlace(c, t)].k = c - 1
                    /\ Len(e) >= n
                    /\ \A j \in 0..(n - 1) :
                          e[j + 1] = (n - 1 - j) + k - SeqMin(cfg.tap_array[c])

\* a MIT-SOT output with taps -2 and -1 run for MaxSteps steps: the sequence
\* cut for tap -2 holds what tap -1 read, and the one for tap -1 what tap -2 read
C31_Witness ==
    /\ SeqsBuilt
    /\ args[1] = MaxSteps
    /\ cfg.n_mit_mot = 0
    /\ cfg.n_mit_sot >= 1
    /\ cfg.tap_array[1] = <<-2, -1>>
    /\ scan_seqs[TapSeqPlace(1, 1)].ops = <<<<"rev", 0, 0>>, <<"slice", 1, -1>>>>
    /\ TapSeqEntries(1, 1) = [j \in 1..MaxSteps |-> MaxSteps + 1 - j]
    /\ TapSeqEntries(1, 2) = [j \in 1..MaxSteps |-> MaxSteps - j]

----------------------------------------------------------------------------
(* grad, step 10: the sequences cut from the forward SIT-SOT outputs *)

\* the place in scan_seqs (1-based) of the sequence of SIT-SOT output j
SitSotSeqPlace(j) == cfg.n_seqs + SumLen(Take(cfg.tap_array, cfg.n_mit_mot + cfg.n_mit_sot)) + j

\* the forward output (0-based) that holds SIT-SOT channel j
SitSotOutput(j) == cfg.n_mit_mot + cfg.n_mit_sot + j - 1

\* the entries of a forward output of StepsRun + 1 entries that the sequence
\* of SIT-SOT output j holds
SitSotSeqEntries(j) ==
    EntriesOf([b \in 1..(StepsRun + 1) |-> b - 1], scan_seqs[SitSotSeqPlace(j)].ops)

\* C32: the sequence grad feeds to the backward loop for forward SIT-SOT
\* channel j is cut from the forward output of channel j itself, its last entry
\* dropped and then reversed, so that its entry at backward step i is entry
\* n-1-i of that output, whatever the number of MIT-MOT and MIT-SOT channels
\* before it
C32_SitSotSequences ==
    SeqsBuilt =>
        \A j \in 1..cfg.n_sit_sot :
            /\ scan_seqs[SitSotSeqPlace(j)].base = "scan_out"
            /\ scan_seqs[SitSotSeqPlace(j)].k = SitSotOutput(j)
            /\ SitSotSeqEntries(j) = [b \in 1..StepsRun |-> StepsRun - b]

\* a forward op with one MIT-MOT and one SIT-SOT channel: the sequence of the
\* SIT-SOT channel (output 1) is cut from output 0, the MIT-MOT one
C32_Witness ==
    /\ SeqsBuilt
    /\ cfg.n_mit_mot = 1
    /\ cfg.n_mit_sot = 0
    /\ cfg.n_sit_sot = 1
    /\ SitSotOutput(1) = 1
    /\ scan_seqs[SitSotSeqPlace(1)] = Rev(Cut(scan_outputs(0), 0, -1))

----------------------------------------------------------------------------
(* execute, step 6: the part of a rotated ring that is set aside *)

\* the tracked outputs that step 6 rotates
Rotated == {c \in (cfg.n_mit_mot + 1)..Len(store_steps) : NeedsReorder(c)}

\* the number of entries step 6 copies to tmp for output c
TmpLength(c) == Len(Tmp(outs[c].data, store_steps[c], pos[c]))

\* the ring of output c has an odd length and is split just before its middle entry
OddMiddle(c) == store_steps[c] % 2 = 1 /\ pos[c] = store_steps[c] \div 2

\* C33 as stated: the part of a rotated ring of length S split at p that is
\* copied to tmp has min(p, S-p) entries, for odd S too
C33_SmallerHalf ==
    [][Finishes =>
          \A c \in Rotated : TmpLength(c) = Min2(pos[c], store_steps[c] - pos[c])]_vars

\* C33: the part of a rotated ring of length S split at p that is copied to
\* tmp has min(p, S-p) entries, except for an odd S split at p = S div 2, where
\* it is the larger part of p+1 entries; the rotation is the same in all cases
C33_SmallerHalfButMiddle ==
    [][Finishes =>
          \A c \in Rotated :
              /\ TmpLength(c) = IF OddMiddle(c) THEN pos[c] + 1
                                ELSE Min2(pos[c], store_steps[c] - pos[c])
              /\ outs'[c].data = Slice(outs[c].data, pos[c], store_steps[c])
                                 \o Slice(outs[c].data, 0, pos[c])]_vars

\* a ring of three entries split at 1 has been rotated after three steps
C33_Witness ==
    /\ pc = "done"
    /\ i = 3
    /\ \E c \in Rotated :
          /\ store_steps[c] = 3
          /\ pos[c] = 1
          /\ OddMiddle(c)
          /\ Len(outs[c].data) = 3

\* a ring split after its middle has been rotated
C33_WitnessTail ==
    /\ pc = "done"
    /\ \E c \in Rotated : 2 * pos[c] > store_steps[c]

----------------------------------------------------------------------------
(* The backward op of grad on its MIT-MOT buffers *)

\* grad of a for-loop of 1..MaxSteps steps with one sequence and MIT-MOT,
\* MIT-SOT and SIT-SOT outputs, every output depending on every input
InitBack ==
    \E n_mm \in 0..MaxSingle, n_ms \in 0..MaxSingle, n_ss \in 0..MaxSingle,
       trunc \in {-1, Truncate}, n \in 1..MaxSteps :
        LET plain == ForwardOp(1, n_mm, n_ms, n_ss, 0, 0, 1, trunc, FALSE, {})
        IN  /\ n_mm + n_ms + n_ss >= 1
            /\ InitGradWith([plain EXCEPT !.deps =
                                (0..(NumClean(plain) - 1))
                                \X (0..(Len(diff_inputs(plain)) - 1))], n)

SpecBack == InitBack /\ [][NextTrunc]_vars

\* execute is inside an iteration of the backward op
BackwardStep == pc \in {"call", "scatter"} /\ "forward" \in DOMAIN cfg

\* the entries of the reversed buffer of forward output c that hold what the
\* forward step undone by backward iteration i read
ForwardReads(c) ==
    LET fwd == cfg.forward
        t == ForwardSteps - 1 - i
    IN  {store_steps[c] - 1 - (t - SeqMin(fwd.tap_array[c]) + fwd.tap_array[c][k]) :
            k \in 1..Len(fwd.tap_array[c])}

\* the indices lines 759 and 688 compute before any wrapping
WriteIndices(c) ==
    {pos[c] + cfg.mit_mot_out_slices[c][k] : k \in 1..Len(cfg.mit_mot_out_slices[c])}

ReadIndices(c) == {pos[c] + cfg.tap_array[c][k] : k \in 1..Len(cfg.tap_array[c])}

\* C34: at each of the at most n iterations of the backward loop of a forward
\* loop of n steps, every MIT-MOT write index pos + slice offset and every
\* read index pos + tap lies in [0, store_steps), and the entries written are
\* those the undone forward step read
C34_BackwardIndices ==
    BackwardStep =>
        /\ i < ForwardSteps
        /\ \A c \in 1..cfg.n_mit_mot :
              /\ WriteIndices(c) \subseteq 0..(store_steps[c] - 1)
              /\ ReadIndices(c) \subseteq 0..(store_steps[c] - 1)
              /\ WriteIndices(c) = ForwardReads(c)

\* the backward loop of a forward loop of one step with one MIT-MOT and one
\* MIT-SOT output: the out slices of the MIT-SOT gradient are on the first
\* buffer, of two entries, and the write at pos + 2 leaves it
C34_Witness ==
    /\ pc = "error"
    /\ "forward" \in DOMAIN cfg
    /\ raised.exc = "IndexError"
    /\ cfg.forward.n_mit_mot = 1
    /\ cfg.forward.n_mit_sot = 1
    /\ ForwardSteps = 1
    /\ i = 0
    /\ cfg.mit_mot_out_slices = <<<<0, -1, 2, 1>>, << >>>>
    /\ store_steps[1] = 2
    /\ pos[1] + 2 = 3

----------------------------------------------------------------------------
(* grad: the backward info against the lists the backward op is built from *)

\* line 1061, 1088-1102: one inner gradient variable per clean output
inner_g_outs(op) == [dx \in 1..NumClean(op) |-> <<"g", dx - 1, 0>>]

\* lines 1147-1154: the inner sequence inputs of the backward op
backward_inner_seqs(op) ==
    LET offset == op.n_mit_mot_outs + op.n_mit_sot + op.n_sit_sot
    IN  Slice(self_inputs(op), 0, NonSeqOffset(op))
        \o Slice(inner_g_outs(op), offset, offset + op.n_nit_sot)

\* lines 1190-1254: the inner MIT-MOT inputs of the backward op
backward_inner_mit_mot(op, g) == MitMotOf(op, g, MaskInputs(SumFrom(op, << >>, 0))).ins

\* the backward call has been assembled
Assembled == scan_inputs # << >> /\ pc \in {"grad_done", "grad_error"}

\* the arguments of the backward call from place lo (0-based), len of them
ArgsFrom(lo, len) == Slice(scan_inputs, lo, lo + len)

WideOp(n_s, n_ms, n_ss, n_ns, n_sh) ==
    [ForwardOp(n_s, 1, n_ms, n_ss, n_ns, n_sh, 1, -1, FALSE, {})
        EXCEPT !.tap_array[1] = <<0, 1, 2>>,
               !.mit_mot_out_slices = <<<<1, 2>>>>,
               !.n_mit_mot_outs = 2]

InitWide ==
    \E n_s \in 0..MaxPlain, n_ms \in 0..MaxSingle, n_ss \in 0..MaxSingle,
       n_ns \in 0..MaxPlain, n_sh \in 0..MaxSingle, n \in {1, MaxSteps} :
        LET plain == WideOp(n_s, n_ms, n_ss, n_ns, n_sh)
        IN  \E deps \in DepsTried(NumClean(plain), Len(diff_inputs(plain))) :
                InitGradWith([plain EXCEPT !.deps = deps], n)

SpecWide == InitWide /\ [][NextGrad]_vars

----------------------------------------------------------------------------
(* execute, step 6: the outputs it leaves alone *)

\* the entries (0-based) of MIT-MOT buffer c that the iterations run so far
\* wrote: at iteration t the position is InitPos + t
MitMotWritten(c) ==
    {PyIndex(InitPos(c, store_steps[c]) + t + cfg.mit_mot_out_slices[c][k],
             store_steps[c]) :
        t \in 0..(i - 1), k \in 1..Len(cfg.mit_mot_out_slices[c])}

\* the cells of outs of the shared outputs
SharedCells == (n_tracked + 1)..(n_tracked + cfg.n_shared_outs)

\* C36: step 6 touches the MIT-SOT, SIT-SOT and NIT-SOT buffers only: every
\* MIT-MOT buffer and every shared output is returned as the last iteration
\* left it, and the MIT-MOT entries no iteration wrote hold the initial state
\* the caller passed, after a full run and after an early stop
C36_LeftAlone ==
    [][Finishes =>
          /\ \A c \in 1..cfg.n_mit_mot :
                /\ outs'[c] = outs[c]
                /\ \A k \in 1..Len(outs'[c].data) :
                      k - 1 \notin MitMotWritten(c)
                          => outs'[c].data[k] = <<"init", c - 1, k - 1>>
          /\ \A s \in SharedCells : outs'[s] = outs[s]]_vars

\* a while loop stopped after two of its three steps: the MIT-MOT buffer,
\* with room for every step, holds the initial state in its first and its
\* last entry and what the two steps wrote in between
C36_Witness ==
    /\ pc = "done"
    /\ cfg.n_mit_mot = 1
    /\ cfg.n_shared_outs = 1
    /\ cfg.as_while
    /\ i = 2
    /\ n_steps = 3
    /\ store_steps[1] = 4
    /\ MitMotWritten(1) = {1, 2}
    /\ outs[1].data[1] = <<"init", 0, 0>>
    /\ outs[1].data[4] = <<"init", 0, 3>>
    /\ outs[1].data[2] # <<"init", 0, 1>>
    /\ outs[n_tracked + 1] # NoValue

----------------------------------------------------------------------------
(* execute: what the outputs hold when the loop is over *)

\* the loop is over and step 6 was entered: execute returned, or step 6 raised
LoopOver == pc = "done" \/ (pc = "error" /\ raised.exc = "TypeError")

\* the step applied n times to the initial value of shared output s (0-based)
RECURSIVE BumpedTimes(_, _)
BumpedTimes(x, n) == IF n = 0 THEN x ELSE Bump(BumpedTimes(x, n - 1))

\* the cells of outs of the NIT-SOT outputs
NitSotCells == (n_outs + 1)..n_tracked

\* C37: for every n_steps >= 0 execute returns, each shared output is the
\* step applied to the initial shared value once per executed iteration (the
\* initial value itself after no iteration), and each NIT-SOT output is a buffer
C37_DefinedOutputs ==
    (LoopOver /\ args[1] >= 0) =>
        /\ pc = "done"
        /\ \A s \in 1..cfg.n_shared_outs :
              outs[n_tracked + s] = BumpedTimes(SharedInit(s - 1), i)
        /\ \A c \in NitSotCells : outs[c].alloc

\* n_steps = 0 and empty cells in outs: no iteration ran, the shared output
\* was never assigned and the NIT-SOT buffer never allocated, and the
\* zero-fill of step 6 on the empty cell raised
C37_Witness ==
    /\ pc = "error"
    /\ raised.exc = "TypeError"
    /\ args[1] = 0
    /\ i = 0
    /\ calls = 0
    /\ cfg.n_nit_sot = 1
    /\ cfg.n_shared_outs = 1
    /\ \A c \in NitSotCells : ~outs[c].alloc
    /\ outs[n_tracked + 1] = NoValue

\* n_steps = 0 and buffers left by a previous call: execute returns, and the
\* shared output is the stale value of that call, not the initial value
C37_WitnessStale ==
    /\ pc = "done"
    /\ args[1] = 0
    /\ i = 0
    /\ cfg.n_shared_outs = 1
    /\ outs[n_tracked + 1] = <<"stale", 0, 0>>
    /\ outs[n_tracked + 1] # SharedInit(0)

----------------------------------------------------------------------------
(* grad: what it does to the op and the lists it is given *)

\* C38: no step of grad changes the forward op (its info, tap_array and
\* mit_mot_out_slices), the args list or the g_outs list of the caller
C38_GradPure ==
    [][cfg' = cfg /\ args' = args /\ g_outs' = g_outs]_vars

\* the forward op and args are as grad was given them, and the None the
\* caller passed as the gradient of the second output has been replaced in
\* the caller's list
C38_Witness ==
    /\ pc = "grad_seqs"
    /\ Len(g_outs) >= 2
    /\ GradOuts(cfg)[2] = None
    /\ g_outs[2] = Var("zeros_like_scan_out", 1)
    /\ g_outs[1] = GradOuts(cfg)[1]
    /\ args = GradArgs(cfg, args[1])

----------------------------------------------------------------------------
(* execute: termination *)

\* loops of up to MaxSteps steps, forwards and backwards, with and without a
\* condition, on empty cells and on buffers of a previous call, with
\* sequences shorter than, as long as and longer than the steps asked for
InitLive ==
    \E lay \in Layouts, ns \in (-MaxSteps)..MaxSteps, while \in BOOLEAN,
       mode \in {"none", "exact"}, room \in {0, MaxSteps} :
        \E lens \in LensAround(lay, Abs(ns)) :
            InitWith(lay, ns, while, "free", mode, lens, FALSE,
                     Rooms(lay, room, MaxSteps))

\* execute is sequential code: a statement that can run does run
SpecLive ==
    /\ InitLive
    /\ [][Next]_vars
    /\ WF_vars(Start)
    /\ WF_vars(Allocate)
    /\ WF_vars(Gather)
    /\ WF_vars(Call)
    /\ WF_vars(Scatter)
    /\ WF_vars(Finish)

\* an iteration is completed
Iterates == pc = "scatter" /\ pc' = "loop"

\* C39: execute terminates; when nothing is raised the loop ends in step 6,
\* which is passed once, and execute has then returned for good. The counter
\* is 0 until the loop is entered, grows by exactly one with each completed
\* iteration and by nothing else, and never exceeds |n_steps|
C39_Terminates ==
    /\ <>[](pc \in {"done", "error"})
    /\ ([](raised = NoError)) => <>[](pc = "done")
    /\ [][Finishes => pc' = "done" /\ i' = i /\ ~LoopContinues]_vars
    /\ [](pc \in {"start", "alloc"} => i = 0)
    /\ [](i <= Abs(args[1]))
    /\ [][IF Iterates THEN i' = i + 1 ELSE i' = i]_vars

\* a loop of MaxSteps steps has run them all and returned
C39_Witness ==
    /\ pc = "done"
    /\ raised = NoError
    /\ Abs(args[1]) = MaxSteps
    /\ i = MaxSteps
    /\ calls = MaxSteps
    /\ ~cfg.as_while

\* a while loop has stopped at its second step and returned
C39_WitnessEarly ==
    /\ pc = "done"
    /\ cfg.as_while
    /\ ~cond
    /\ i = 2
    /\ n_steps = MaxSteps

====
